---- MODULE Spec2Model ----
(***************************************************************************)
(* Model of the Chat Completions -> Responses translation core:            *)
(*   service/openaicompat/chat_to_responses_stream.go                      *)
(*     ChatToResponsesStreamAdapter (ConvertChunk and its event builders)  *)
(*     ChatCompletionsResponseToResponsesResponse (non-streaming)          *)
(*                                                                         *)
(* Conventions.  A Go pointer (to a string, an int, a dto.Usage, a chunk)   *)
(* is a sequence of length 0 (nil) or 1 (the pointed-to value).  A Go      *)
(* map[int]string is a function whose domain is the set of keys.  A value  *)
(* of common.GetUUID() is a fresh number; an identifier "fc_<uuid>" is the *)
(* pair <<"fc", n>>.  A JSON event is a record with the keys the code puts *)
(* into its map[string]any.                                                *)
(***************************************************************************)
EXTENDS Integers, Sequences, FiniteSets, TLC

VARIABLES
    adapter,    \* the fields of one ChatToResponsesStreamAdapter
    uuid,       \* number of identifiers common.GetUUID() has handed out
    calls,      \* history: one [chunk, events] per ConvertChunk call, in order
    nonStream,  \* history of the non-streaming conversion: <<>> or <<[chatResp, resp]>>
    adapterB,   \* a second adapter, serving another stream: nil or its fields
    callsB,     \* history of the second adapter's ConvertChunk calls
    requests    \* history of the request conversion: <<>> or <<[req, chatReq, err]>>

vars == <<adapter, uuid, calls, nonStream, adapterB, callsB, requests>>

(***************************************************************************)
(* Bounds of the exploration.                                              *)
(***************************************************************************)
MaxChunks == 2

Nil == <<>>
Ptr(v) == <<v>>
Deref(p) == p[1]

\* all orders in which Go may range over a map whose set of keys is S
RECURSIVE Perms(_)
Perms(S) ==
    IF S = {} THEN {<<>>}
    ELSE UNION { { <<x>> \o p : p \in Perms(S \ {x}) } : x \in S }

\* m[k] = v in Go
MapPut(m, k, v) == [x \in (DOMAIN m) \cup {k} |-> IF x = k THEN v ELSE m[x]]

RECURSIVE Flatten(_)
Flatten(ss) == IF ss = <<>> THEN <<>> ELSE Head(ss) \o Flatten(Tail(ss))

(***************************************************************************)
(* NewChatToResponsesStreamAdapter: two identifiers are minted, the maps   *)
(* are empty, every other field has Go's zero value.                       *)
(***************************************************************************)
NewChatToResponsesStreamAdapter(first, now) ==
    [ ResponseID        |-> <<"resp", first + 1>>,
      CreatedAt         |-> now,
      Model             |-> "",
      initialized       |-> FALSE,
      messageItemID     |-> <<"msg", first + 2>>,
      contentPartIndex  |-> 0,
      toolCallItemIDs   |-> <<>>,
      toolCallArguments |-> <<>>,
      outputIndex       |-> 0,
      hasTextContent    |-> FALSE ]

(***************************************************************************)
(* The event builders.                                                     *)
(***************************************************************************)
createResponseCreatedEvent(a) ==
    [ type |-> "response.created",
      response |-> [ id |-> a.ResponseID, object |-> "response",
                     created_at |-> a.CreatedAt, status |-> "in_progress",
                     model |-> a.Model, output |-> <<>> ] ]

createResponseInProgressEvent(a) ==
    [ type |-> "response.in_progress",
      response |-> [ id |-> a.ResponseID, object |-> "response",
                     created_at |-> a.CreatedAt, status |-> "in_progress",
                     model |-> a.Model ] ]

createOutputItemAddedEvent(a) ==
    [ type |-> "response.output_item.added",
      output_index |-> a.outputIndex,
      item |-> [ type |-> "message", id |-> a.messageItemID,
                 status |-> "in_progress", role |-> "assistant",
                 content |-> <<>> ] ]

createContentPartAddedEvent(a) ==
    [ type |-> "response.content_part.added",
      item_id |-> a.messageItemID,
      output_index |-> a.outputIndex,
      content_index |-> a.contentPartIndex,
      part |-> [ type |-> "output_text", text |-> "" ] ]

createTextDeltaEvent(a, text) ==
    [ type |-> "response.output_text.delta",
      item_id |-> a.messageItemID,
      output_index |-> a.outputIndex,
      content_index |-> a.contentPartIndex,
      delta |-> text ]

createTextDoneEvent(a) ==
    [ type |-> "response.output_text.done",
      item_id |-> a.messageItemID,
      output_index |-> a.outputIndex,
      content_index |-> a.contentPartIndex,
      text |-> "" ]

createContentPartDoneEvent(a) ==
    [ type |-> "response.content_part.done",
      item_id |-> a.messageItemID,
      output_index |-> a.outputIndex,
      content_index |-> a.contentPartIndex,
      part |-> [ type |-> "output_text", text |-> "" ] ]

createOutputItemDoneEvent(a) ==
    [ type |-> "response.output_item.done",
      output_index |-> a.outputIndex,
      item |-> [ type |-> "message", id |-> a.messageItemID,
                 status |-> "completed", role |-> "assistant",
                 content |-> << [ type |-> "output_text", text |-> "" ] >> ] ]

\* createFunctionCallAddedEvent announcing the item at its upstream index
createFunctionCallAddedEventAtIdx(a, idx, callID, name) ==
    [ type |-> "response.output_item.added",
      output_index |-> idx,
      item |-> [ type |-> "function_call", id |-> a.toolCallItemIDs[idx],
                 status |-> "in_progress", call_id |-> callID,
                 name |-> name, arguments |-> "" ] ]

createFunctionCallAddedEvent(a, idx, callID, name) ==
    [ type |-> "response.output_item.added",
      output_index |-> a.outputIndex,
      item |-> [ type |-> "function_call", id |-> a.toolCallItemIDs[idx],
                 status |-> "in_progress", call_id |-> callID,
                 name |-> name, arguments |-> "" ] ]

\* the output_index the delta / done events of tool call idx carry
toolCallOutputIdx(a, idx) == IF a.hasTextContent THEN idx + 1 ELSE idx

createFunctionCallArgumentsDeltaEvent(a, idx, argsDelta) ==
    [ type |-> "response.function_call_arguments.delta",
      item_id |-> a.toolCallItemIDs[idx],
      output_index |-> toolCallOutputIdx(a, idx),
      delta |-> argsDelta ]

createFunctionCallArgumentsDoneEvent(a, idx) ==
    [ type |-> "response.function_call_arguments.done",
      item_id |-> a.toolCallItemIDs[idx],
      output_index |-> toolCallOutputIdx(a, idx),
      arguments |-> a.toolCallArguments[idx] ]

createFunctionCallDoneEvent(a, idx) ==
    [ type |-> "response.output_item.done",
      output_index |-> toolCallOutputIdx(a, idx),
      item |-> [ type |-> "function_call", id |-> a.toolCallItemIDs[idx],
                 status |-> "completed",
                 arguments |-> a.toolCallArguments[idx] ] ]

\* completedStatus with the two cases of the switch exchanged
completedStatusSwapped(finishReason) ==
    CASE finishReason = "length"         -> "failed"
      [] finishReason = "content_filter" -> "incomplete"
      [] OTHER                           -> "completed"

\* status of response.completed (the switch on finishReason)
completedStatus(finishReason) ==
    CASE finishReason = "length"         -> "incomplete"
      [] finishReason = "content_filter" -> "failed"
      [] OTHER                           -> "completed"

\* completedUsage without the two overrides by InputTokens / OutputTokens
completedUsageNoOverride(usage) ==
    IF usage = Nil THEN Nil
    ELSE LET u == Deref(usage) IN
         Ptr([ input_tokens  |-> u.PromptTokens,
               output_tokens |-> u.CompletionTokens,
               total_tokens  |-> u.TotalTokens ])

\* the usage map of response.completed; nil when the chunk has no usage
completedUsage(usage) ==
    IF usage = Nil THEN Nil
    ELSE LET u == Deref(usage) IN
         Ptr([ input_tokens  |-> IF u.InputTokens > 0 THEN u.InputTokens
                                 ELSE u.PromptTokens,
               output_tokens |-> IF u.OutputTokens > 0 THEN u.OutputTokens
                                 ELSE u.CompletionTokens,
               total_tokens  |-> u.TotalTokens ])

\* the function_call items of response.completed's output, in map order
completedToolItems(a, order) ==
    [ i \in 1..Len(order) |->
        [ type |-> "function_call", id |-> a.toolCallItemIDs[order[i]],
          status |-> "completed",
          arguments |-> a.toolCallArguments[order[i]] ] ]

\* `order` is the order in which Go ranges over toolCallItemIDs here
createResponseCompletedEvent(a, usage, finishReason, order) ==
    LET message == [ type |-> "message", id |-> a.messageItemID,
                     status |-> "completed", role |-> "assistant",
                     content |-> << [ type |-> "output_text", text |-> "",
                                      annotations |-> <<>> ] >> ]
        output == (IF a.hasTextContent THEN <<message>> ELSE <<>>)
                  \o completedToolItems(a, order)
    IN [ type |-> "response.completed",
         response |-> [ id |-> a.ResponseID, object |-> "response",
                        created_at |-> a.CreatedAt,
                        status |-> completedStatus(finishReason),
                        model |-> a.Model, output |-> output,
                        usage |-> completedUsage(usage) ] ]

(***************************************************************************)
(* ConvertChunk, step by step.  A step takes and returns                   *)
(*   st = [a |-> adapter fields, uuid |-> identifiers minted,              *)
(*         events |-> the batch built so far].                             *)
(***************************************************************************)
emit(st, ev) == [st EXCEPT !.events = Append(@, ev)]

\* "Update model if present"
stepModel(st, chunk) ==
    IF chunk.Model # "" THEN [st EXCEPT !.a.Model = chunk.Model] ELSE st

\* stepInitialized without `a.initialized = true`
stepInitializedFlagNotSet(st) ==
    IF ~st.a.initialized
    THEN [st EXCEPT !.events = @ \o << createResponseCreatedEvent(st.a),
                                       createResponseInProgressEvent(st.a) >>]
    ELSE st

\* "Handle initial response.created event"
stepInitialized(st) ==
    IF ~st.a.initialized
    THEN LET a1 == [st.a EXCEPT !.initialized = TRUE]
         IN [st EXCEPT !.a = a1,
                       !.events = @ \o << createResponseCreatedEvent(a1),
                                          createResponseInProgressEvent(a1) >>]
    ELSE st

\* "Handle role (indicates start of new message)"
stepRole(st, delta) ==
    IF delta.Role = "assistant" /\ ~st.a.hasTextContent
    THEN [st EXCEPT !.events = @ \o << createOutputItemAddedEvent(st.a),
                                       createContentPartAddedEvent(st.a) >>]
    ELSE st

\* "Handle reasoning content": the branch has an empty body
stepReasoning(st, delta) ==
    IF delta.ReasoningContent # Nil /\ Deref(delta.ReasoningContent) # ""
    THEN st
    ELSE st

\* "Handle text content delta"
stepText(st, delta) ==
    IF delta.Content # Nil /\ Deref(delta.Content) # ""
    THEN LET a1 == [st.a EXCEPT !.hasTextContent = TRUE]
         IN emit([st EXCEPT !.a = a1], createTextDeltaEvent(a1, Deref(delta.Content)))
    ELSE st

\* appendArguments with the operands of += exchanged
appendArgumentsPrepended(old, fragment) == fragment \o old

\* a.toolCallArguments[idx] += fragment
appendArguments(old, fragment) == old \o fragment

\* the body of the loop over delta.ToolCalls, for one tool call
stepToolCall(st, tc) ==
    LET idx == IF tc.Index # Nil THEN Deref(tc.Index) ELSE 0
        st1 == IF idx \notin DOMAIN st.a.toolCallItemIDs
               THEN LET itemID == <<"fc", st.uuid + 1>>
                        a1 == [st.a EXCEPT
                                 !.toolCallItemIDs = MapPut(@, idx, itemID),
                                 !.toolCallArguments = MapPut(@, idx, ""),
                                 !.outputIndex = @ + 1]
                    IN emit([st EXCEPT !.a = a1, !.uuid = @ + 1],
                            createFunctionCallAddedEvent(a1, idx, tc.ID, tc.Function.Name))
               ELSE st
    IN IF tc.Function.Arguments # ""
       THEN LET a2 == [st1.a EXCEPT !.toolCallArguments[idx] =
                                      appendArguments(@, tc.Function.Arguments)]
            IN emit([st1 EXCEPT !.a = a2],
                    createFunctionCallArgumentsDeltaEvent(a2, idx, tc.Function.Arguments))
       ELSE st1

RECURSIVE stepToolCalls(_, _)
stepToolCalls(st, tcs) ==
    IF tcs = <<>> THEN st
    ELSE stepToolCalls(stepToolCall(st, Head(tcs)), Tail(tcs))

\* the done events of the tool calls, in the order Go ranges over the map
RECURSIVE toolCallDoneEvents(_, _)
toolCallDoneEvents(a, order) ==
    IF order = <<>> THEN <<>>
    ELSE << createFunctionCallArgumentsDoneEvent(a, Head(order)),
            createFunctionCallDoneEvent(a, Head(order)) >>
         \o toolCallDoneEvents(a, Tail(order))

\* stepFinish closing the stream on any non-nil finish reason, the empty one included
stepFinishOnAnyReason(st, chunk, choice, order1, order2) ==
    IF choice.FinishReason # Nil
    THEN LET a == st.a
             text == IF a.hasTextContent
                     THEN << createTextDoneEvent(a), createContentPartDoneEvent(a),
                             createOutputItemDoneEvent(a) >>
                     ELSE <<>>
             tools == toolCallDoneEvents(a, order1)
             done == createResponseCompletedEvent(a, chunk.Usage,
                         Deref(choice.FinishReason), order2)
         IN [st EXCEPT !.events = @ \o text \o tools \o <<done>>]
    ELSE st

\* "Handle finish reason"; order1 and order2 are the orders in which Go ranges
\* over toolCallItemIDs at line 122 and at line 369
stepFinish(st, chunk, choice, order1, order2) ==
    IF choice.FinishReason # Nil /\ Deref(choice.FinishReason) # ""
    THEN LET a == st.a
             text == IF a.hasTextContent
                     THEN << createTextDoneEvent(a), createContentPartDoneEvent(a),
                             createOutputItemDoneEvent(a) >>
                     ELSE <<>>
             tools == toolCallDoneEvents(a, order1)
             done == createResponseCompletedEvent(a, chunk.Usage,
                         Deref(choice.FinishReason), order2)
         IN [st EXCEPT !.events = @ \o text \o tools \o <<done>>]
    ELSE st

\* "Process choices": only Choices[0] is read
stepChoices(st, chunk, order1, order2) ==
    IF Len(chunk.Choices) > 0
    THEN LET choice == chunk.Choices[1]
             delta == choice.Delta
             s1 == stepRole(st, delta)
             s2 == stepReasoning(s1, delta)
             s3 == stepText(s2, delta)
             s4 == stepToolCalls(s3, delta.ToolCalls)
         IN stepFinish(s4, chunk, choice, order1, order2)
    ELSE st

\* the tool-call indices of the chunk (tc.Index, 0 when nil)
chunkToolIdxs(chunkPtr) ==
    IF chunkPtr = Nil \/ Deref(chunkPtr).Choices = <<>> THEN {}
    ELSE LET tcs == Deref(chunkPtr).Choices[1].Delta.ToolCalls
         IN { IF tcs[i].Index # Nil THEN Deref(tcs[i].Index) ELSE 0 : i \in 1..Len(tcs) }

\* the keys of toolCallItemIDs once the chunk's tool calls are handled
keysAfter(a, chunkPtr) == (DOMAIN a.toolCallItemIDs) \cup chunkToolIdxs(chunkPtr)

\* ConvertChunkResult with the nil check placed after the initialisation
ConvertChunkResultNilInitializes(a, u, chunkPtr, order1, order2) ==
    LET st0 == [a |-> a, uuid |-> u, events |-> <<>>]
    IN IF chunkPtr = Nil THEN stepInitialized(st0)
       ELSE LET chunk == Deref(chunkPtr)
            IN stepChoices(stepInitialized(stepModel(st0, chunk)), chunk, order1, order2)

\* ConvertChunk as a function of the adapter and the chunk pointer
ConvertChunkResult(a, u, chunkPtr, order1, order2) ==
    LET st0 == [a |-> a, uuid |-> u, events |-> <<>>]
    IN IF chunkPtr = Nil THEN st0
       ELSE LET chunk == Deref(chunkPtr)
            IN stepChoices(stepInitialized(stepModel(st0, chunk)), chunk, order1, order2)

(***************************************************************************)
(* ChatCompletionsResponseToResponsesResponse (non-streaming).             *)
(***************************************************************************)
\* dto.Message.ParseToolCalls: the tool calls decoded from message.tool_calls
ParseToolCalls(msg) == msg.ToolCalls

\* dto.Message.StringContent: the message content as one string
StringContent(msg) == msg.Content

HasPrefix(id, prefix) == id[1] = prefix

\* status of the converted response
responseStatus(choices) ==
    IF Len(choices) > 0
    THEN CASE choices[1].FinishReason = "length"         -> "incomplete"
           [] choices[1].FinishReason = "content_filter" -> "failed"
           [] OTHER                                      -> "completed"
    ELSE "completed"

convertChatUsageToResponsesUsage(chatUsage) ==
    IF chatUsage = Nil THEN Nil
    ELSE LET u == Deref(chatUsage) IN
         Ptr([ PromptTokens     |-> u.PromptTokens,
               CompletionTokens |-> u.CompletionTokens,
               TotalTokens      |-> u.TotalTokens,
               InputTokens      |-> IF u.InputTokens > 0 THEN u.InputTokens
                                    ELSE u.PromptTokens,
               OutputTokens     |-> IF u.OutputTokens > 0 THEN u.OutputTokens
                                    ELSE u.CompletionTokens ])

\* the function_call items, one fresh fc_ identifier each, minted after `first`
functionCallOutputs(toolCalls, first) ==
    [ i \in 1..Len(toolCalls) |->
        [ Type |-> "function_call", ID |-> <<"fc", first + i>>,
          Status |-> "completed", CallId |-> toolCalls[i].ID,
          Name |-> toolCalls[i].Function.Name,
          Arguments |-> toolCalls[i].Function.Arguments ] ]

\* the content parts of the message item
messageContentItems(msg, textContent) ==
    (IF msg.ReasoningContent # ""
     THEN << [ Type |-> "reasoning", Text |-> msg.ReasoningContent ] >> ELSE <<>>)
    \o (IF textContent # ""
        THEN << [ Type |-> "output_text", Text |-> textContent,
                  Annotations |-> <<>> ] >> ELSE <<>>)

\* "Build output array": [output, uuid] from Choices[0], identifiers minted after u
buildOutput(choices, u) ==
    IF Len(choices) > 0
    THEN LET msg == choices[1].Message
             toolCalls == ParseToolCalls(msg)
             calls1 == functionCallOutputs(toolCalls, u)
             u1 == u + Len(toolCalls)
             textContent == StringContent(msg)
             contentItems == messageContentItems(msg, textContent)
         IN IF (textContent # "" \/ Len(toolCalls) = 0)
               /\ (Len(contentItems) > 0 \/ Len(toolCalls) = 0)
            THEN [ output |-> << [ Type |-> "message", ID |-> <<"msg", u1 + 1>>,
                                   Status |-> "completed", Role |-> "assistant",
                                   Content |-> contentItems ] >> \o calls1,
                   uuid |-> u1 + 1 ]
            ELSE [ output |-> calls1, uuid |-> u1 ]
    ELSE [ output |-> <<>>, uuid |-> u ]

\* [resp, uuid]: the converted response (a pointer) and the identifiers minted
ChatCompletionsResponseToResponsesResponse(chatRespPtr, originalReq, u, now) ==
    IF chatRespPtr = Nil THEN [ resp |-> Nil, uuid |-> u ]
    ELSE LET chatResp == Deref(chatRespPtr)
             mint == chatResp.Id = <<"", 0>> \/ ~HasPrefix(chatResp.Id, "resp")
             responseID == IF mint THEN <<"resp", u + 1>> ELSE chatResp.Id
             u1 == IF mint THEN u + 1 ELSE u
             createdAt == IF chatResp.Created.kind \in {"int", "int64", "float64"}
                          THEN chatResp.Created.v ELSE now
             out == buildOutput(chatResp.Choices, u1)
             req == IF originalReq # Nil THEN Deref(originalReq)
                    ELSE [ Instructions |-> "", MaxOutputTokens |-> 0,
                           Temperature |-> Nil, TopP |-> Nil,
                           Reasoning |-> Nil, Metadata |-> "" ]
         IN [ resp |-> Ptr([ ID              |-> responseID,
                             Object          |-> "response",
                             CreatedAt       |-> createdAt,
                             Status          |-> responseStatus(chatResp.Choices),
                             Model           |-> chatResp.Model,
                             Output          |-> out.output,
                             Usage           |-> convertChatUsageToResponsesUsage(
                                                     Ptr(chatResp.Usage)),
                             Instructions    |-> req.Instructions,
                             MaxOutputTokens |-> req.MaxOutputTokens,
                             Temperature     |-> IF req.Temperature # Nil
                                                 THEN Deref(req.Temperature) ELSE 0,
                             TopP            |-> IF req.TopP # Nil
                                                 THEN Deref(req.TopP) ELSE 0,
                             Reasoning       |-> req.Reasoning,
                             Metadata        |-> req.Metadata ]),
              uuid |-> out.uuid ]

(***************************************************************************)
(* The chunks fed to the adapter.                                          *)
(***************************************************************************)
mkToolCall(index, id, name, args) ==
    [ Index |-> index, ID |-> id, Function |-> [ Name |-> name, Arguments |-> args ] ]

mkChoice(role, content, reasoning, toolCalls, finish) ==
    [ Delta |-> [ Role |-> role, Content |-> content, ReasoningContent |-> reasoning,
                  ToolCalls |-> toolCalls ],
      FinishReason |-> finish ]

mkChunk(model, choices, usage) ==
    Ptr([ Model |-> model, Choices |-> choices, Usage |-> usage ])

head0x == mkToolCall(Ptr(0), "call_a", "f", "x")
head0  == mkToolCall(Ptr(0), "call_a", "f", "")
frag0y == mkToolCall(Ptr(0), "", "", "y")
head1x == mkToolCall(Ptr(1), "call_b", "g", "x")
frag1y == mkToolCall(Ptr(1), "", "", "y")
noIdxx == mkToolCall(Nil, "call_a", "f", "x")

\* the non-empty tool_calls lists of the explored chunks
ToolLists ==
    { <<head0x>>, <<head0>>, <<frag0y>>, <<head1x>>, <<noIdxx>>,
      <<head0x, head1x>>, <<frag1y, frag0y>> }

\* chunks without tool calls: every combination of role, text and finish reason
TextChunks ==
    { mkChunk("", << mkChoice(role, content, Nil, <<>>, finish) >>, Nil) :
        role \in {"", "assistant"}, content \in {Nil, Ptr("Hi")},
        finish \in {Nil, Ptr("stop")} }

\* chunks with tool calls, with or without text and finish reason
ToolChunks ==
    { mkChunk("", << mkChoice("", content, Nil, tcs, finish) >>, Nil) :
        content \in {Nil, Ptr("Hi")}, tcs \in ToolLists,
        finish \in {Nil, Ptr("stop")} }

\* a nil chunk, a chunk without choices, pointers to empty strings, another role
EdgeChunks ==
    { Nil, mkChunk("", <<>>, Nil),
      mkChunk("", << mkChoice("assistant", Ptr(""), Nil, <<>>, Ptr("")) >>, Nil),
      mkChunk("", << mkChoice("user", Ptr(""), Nil, <<>>, Ptr("stop")) >>, Nil) }

\* streams of the structural specification: role, text, tool calls, finish
Chunks == TextChunks \cup ToolChunks \cup EdgeChunks

(***************************************************************************)
(* Actions.                                                                *)
(***************************************************************************)
Init ==
    /\ adapter = NewChatToResponsesStreamAdapter(0, 0)
    /\ uuid = 2
    /\ calls = <<>>
    /\ nonStream = <<>>
    /\ adapterB = Nil
    /\ callsB = <<>>
    /\ requests = <<>>

\* one ConvertChunk call of the consumer that owns the adapter
ConvertChunk(chunkPtr, order1, order2) ==
    /\ Len(calls) < MaxChunks
    /\ nonStream = <<>>
    /\ LET r == ConvertChunkResult(adapter, uuid, chunkPtr, order1, order2)
       IN /\ adapter' = r.a
          /\ uuid' = r.uuid
          /\ calls' = Append(calls, [chunk |-> chunkPtr, events |-> r.events])
    /\ UNCHANGED <<nonStream, adapterB, callsB, requests>>

Next ==
    \E chunkPtr \in Chunks :
        \E order1, order2 \in Perms(keysAfter(adapter, chunkPtr)) :
            ConvertChunk(chunkPtr, order1, order2)

Spec == Init /\ [][Next]_vars

(***************************************************************************)
(* The specification of finish status and usage: streams whose chunks vary *)
(* the finish reason and the usage, and one complete chat response.  A     *)
(* relayed request is answered by a stream or by one complete response.    *)
(***************************************************************************)
mkUsage(prompt, completion, input, output) ==
    [ PromptTokens |-> prompt, CompletionTokens |-> completion,
      TotalTokens |-> prompt + completion,
      InputTokens |-> input, OutputTokens |-> output ]

\* input_tokens / output_tokens 0: the source did not set them
Usages ==
    { mkUsage(p, 2, i, o) : p \in {0, 1}, i \in {0, 3}, o \in {0, 4} }

FinishReasons == {"stop", "length", "tool_calls", "content_filter", "function_call"}

StatusChunks ==
    { Nil, mkChunk("", <<>>, Ptr(mkUsage(1, 2, 3, 4))) }
    \cup { mkChunk("", << mkChoice("", Nil, Nil, <<>>, finish) >>, usage) :
             finish \in {Nil, Ptr("")} \cup { Ptr(f) : f \in FinishReasons },
             usage \in {Nil} \cup { Ptr(u) : u \in Usages } }

mkMessage(content, reasoning, toolCalls) ==
    [ Content |-> content, ReasoningContent |-> reasoning, ToolCalls |-> toolCalls ]

respCall1 == [ ID |-> "call_a", Function |-> [ Name |-> "f", Arguments |-> "{}" ] ]
respCall2 == [ ID |-> "call_b", Function |-> [ Name |-> "g", Arguments |-> "x" ] ]

ChatChoices ==
    { <<>> }
    \cup { << [ Message |-> mkMessage(content, reasoning, tcs),
                FinishReason |-> finish ] >> :
             content \in {"", "Hi"}, reasoning \in {"", "why"},
             tcs \in { <<>>, <<respCall1>>, <<respCall1, respCall2>> },
             finish \in FinishReasons \cup {""} }

ChatResps ==
    { Nil }
    \cup { Ptr([ Id |-> id, Created |-> created, Model |-> "m1",
                 Choices |-> choices, Usage |-> usage ]) :
             id \in { <<"", 0>>, <<"chatcmpl", 9>>, <<"resp", 9>> },
             created \in { [kind |-> "int64", v |-> 100], [kind |-> "nil", v |-> 0] },
             choices \in ChatChoices, usage \in Usages }

OriginalRequests ==
    { Nil,
      Ptr([ Instructions |-> "be brief", MaxOutputTokens |-> 64,
            Temperature |-> Ptr(1), TopP |-> Nil,
            Reasoning |-> Ptr([ Effort |-> "low" ]), Metadata |-> "{}" ]) }

\* one call of ChatCompletionsResponseToResponsesResponse, at time 200
ConvertResponse ==
    /\ calls = <<>>
    /\ nonStream = <<>>
    /\ \E chatRespPtr \in ChatResps, originalReq \in OriginalRequests :
         LET r == ChatCompletionsResponseToResponsesResponse(chatRespPtr, originalReq,
                                                             uuid, 200)
         IN /\ nonStream' = << [ chatResp |-> chatRespPtr, originalReq |-> originalReq,
                                 resp |-> r.resp ] >>
            /\ uuid' = r.uuid
    /\ UNCHANGED <<adapter, calls, adapterB, callsB, requests>>

NextStatus ==
    \/ \E chunkPtr \in StatusChunks :
           \E order1, order2 \in Perms(keysAfter(adapter, chunkPtr)) :
               ConvertChunk(chunkPtr, order1, order2)
    \/ ConvertResponse

SpecStatus == Init /\ [][NextStatus]_vars

\* every event emitted so far, in order
Events == Flatten([i \in 1..Len(calls) |-> calls[i].events])


(***************************************************************************)
(* Reading the emitted events.                                             *)
(***************************************************************************)
IsMessageAdded(e) == e.type = "response.output_item.added" /\ e.item.type = "message"
IsMessageDone(e) == e.type = "response.output_item.done" /\ e.item.type = "message"
IsCallAdded(e) == e.type = "response.output_item.added" /\ e.item.type = "function_call"
IsCallDone(e) == e.type = "response.output_item.done" /\ e.item.type = "function_call"
IsPartAdded(e) == e.type = "response.content_part.added"
IsPartDone(e) == e.type = "response.content_part.done"
IsTextDone(e) == e.type = "response.output_text.done"
IsArgsDelta(e) == e.type = "response.function_call_arguments.delta"
IsArgsDone(e) == e.type = "response.function_call_arguments.done"
IsCompleted(e) == e.type = "response.completed"

\* whether the event refers to an output item, and the identifier of that item
HasItem(e) == "item" \in DOMAIN e \/ "item_id" \in DOMAIN e
ItemOf(e) == IF "item" \in DOMAIN e THEN e.item.id ELSE e.item_id

\* positions of the events of es that satisfy P
Positions(es, P(_)) == {i \in 1..Len(es) : P(es[i])}

\* positions below p
Before(es, p, P(_)) == {i \in 1..(p - 1) : P(es[i])}

\* the call (1-based) whose batch holds the event at position p of Events
RECURSIVE CallOfFrom(_, _)
CallOfFrom(p, i) ==
    IF p <= Len(calls[i].events) THEN i ELSE CallOfFrom(p - Len(calls[i].events), i + 1)
CallOf(p) == CallOfFrom(p, 1)

\* calls whose batch holds a response.completed
CompletedCalls == {i \in 1..Len(calls) : Positions(calls[i].events, IsCompleted) # {}}

\* the last ConvertChunk call completed the stream: its batch ends with
\* response.completed
JustCompleted ==
    /\ calls # <<>>
    /\ calls[Len(calls)].events # <<>>
    /\ IsCompleted(Events[Len(Events)])

\* concatenation of the delta fields at the positions ps (ascending) of es
RECURSIVE ConcatDeltas(_, _)
ConcatDeltas(es, ps) ==
    IF ps = {} THEN ""
    ELSE LET m == CHOOSE x \in ps : \A y \in ps : x <= y
         IN es[m].delta \o ConcatDeltas(es, ps \ {m})

(***************************************************************************)
(* C1. Every *.added event is matched by exactly one *.done event before   *)
(* response.completed, and no *.done event is emitted for an item or part  *)
(* whose *.added was never emitted.  The code violates this: a role        *)
(* announcement opens the message, only non-empty text closes it.          *)
(***************************************************************************)
C1_AddedDonePairing ==
    LET es == Events IN
    /\ \A p \in Positions(es, IsCompleted) :
         /\ Cardinality(Before(es, p, IsMessageAdded)) = Cardinality(Before(es, p, IsMessageDone))
         /\ Cardinality(Before(es, p, IsPartAdded)) = Cardinality(Before(es, p, IsPartDone))
         /\ \A q \in Before(es, p, IsCallAdded) :
              Cardinality({r \in Before(es, p, IsCallDone) : es[r].item.id = es[q].item.id}) = 1
    /\ \A q \in Positions(es, IsMessageDone) : Before(es, q, IsMessageAdded) # {}
    /\ \A q \in Positions(es, IsPartDone) : Before(es, q, IsPartAdded) # {}
    /\ \A q \in Positions(es, IsTextDone) : Before(es, q, IsPartAdded) # {}
    /\ \A q \in Positions(es, IsCallDone) \cup Positions(es, IsArgsDone) :
         \E r \in Before(es, q, IsCallAdded) : es[r].item.id = ItemOf(es[q])

(***************************************************************************)
(* C2. response.completed is terminal: once a ConvertChunk call has        *)
(* emitted it, no later call emits any event.  The code keeps no record of *)
(* the completion, so a later chunk is converted like any other.           *)
(***************************************************************************)
C2_CompletedIsTerminal ==
    \A i \in CompletedCalls : \A j \in (i + 1)..Len(calls) : calls[j].events = <<>>

(***************************************************************************)
(* C3. response.created is the first event and response.in_progress the    *)
(* second, both come from the first ConvertChunk call on a non-nil chunk,  *)
(* each is emitted once, and `initialized` is set exactly from then on.    *)
(***************************************************************************)
NonNilCalls == {i \in 1..Len(calls) : calls[i].chunk # Nil}

C3_CreatedFirstOnce ==
    LET es == Events
        IsCreated(e) == e.type = "response.created"
        IsInProgress(e) == e.type = "response.in_progress"
    IN /\ adapter.initialized = (NonNilCalls # {})
       /\ \A i \in 1..Len(calls) : calls[i].chunk = Nil => calls[i].events = <<>>
       /\ \A i \in NonNilCalls :
            IF \A j \in NonNilCalls : i <= j
            THEN /\ Len(calls[i].events) >= 2
                 /\ IsCreated(calls[i].events[1])
                 /\ IsInProgress(calls[i].events[2])
            ELSE /\ Positions(calls[i].events, IsCreated) = {}
                 /\ Positions(calls[i].events, IsInProgress) = {}
       /\ es # <<>> => /\ Positions(es, IsCreated) = {1}
                       /\ Positions(es, IsInProgress) = {2}

\* two non-nil chunks were converted and the second one emitted events too
C3_Witness ==
    /\ Len(calls) = 2
    /\ calls[1].chunk # Nil /\ calls[2].chunk # Nil
    /\ calls[2].events # <<>>
    /\ Events[1].type = "response.created"

(***************************************************************************)
(* C4. Every event that refers to an output item carries the output_index  *)
(* of that item's output_item.added event.  The code reads the running     *)
(* counter for the message events and for a call's added event, and        *)
(* computes idx / idx+1 for a call's delta and done events.                *)
(***************************************************************************)
IsItemAdded(e) == e.type = "response.output_item.added"

C4_StableOutputIndex ==
    LET es == Events IN
    \A p \in Positions(es, IsItemAdded) : \A q \in 1..Len(es) :
        (HasItem(es[q]) /\ ItemOf(es[q]) = es[p].item.id)
            => es[q].output_index = es[p].output_index

(***************************************************************************)
(* C5. In a completed stream: when a message item was opened, its events   *)
(* carry output_index 0 and every event of the tool call with upstream     *)
(* index idx carries idx+1; when none was opened, the tool call's events   *)
(* carry idx.  The code's added event carries the running counter instead. *)
(***************************************************************************)
UpstreamIdx(id) ==
    CHOOSE k \in DOMAIN adapter.toolCallItemIDs : adapter.toolCallItemIDs[k] = id

C5_ToolCallIndexDiscipline ==
    JustCompleted =>
        LET es == Events
            opened == Positions(es, IsMessageAdded) # {}
        IN \A p \in 1..Len(es) :
             HasItem(es[p]) =>
               IF ItemOf(es[p])[1] = "fc"
               THEN es[p].output_index =
                        IF opened THEN UpstreamIdx(ItemOf(es[p])) + 1
                        ELSE UpstreamIdx(ItemOf(es[p]))
               ELSE opened => es[p].output_index = 0

(***************************************************************************)
(* C6. The output_index values of successive output_item.added events are  *)
(* 0, 1, 2, ... (strictly increasing from 0, no gaps), and the             *)
(* content_index values of content_part.added events start at 0 and        *)
(* increase.  The code gives the message the counter without advancing it  *)
(* and gives a tool call the counter after advancing it.                   *)
(***************************************************************************)
C6_IndexMonotonic ==
    LET es == Events
        items == Positions(es, IsItemAdded)
        parts == Positions(es, IsPartAdded)
    IN /\ \A p \in items : es[p].output_index = Cardinality({q \in items : q < p})
       /\ \A p \in parts :
            /\ (\A q \in parts : p <= q) => es[p].content_index = 0
            /\ \A q \in parts : q < p => es[q].content_index < es[p].content_index

(***************************************************************************)
(* C7. In a completed stream the resp_ id is the same in every event that  *)
(* carries the response, and every msg_ / fc_ id of an added event appears *)
(* in the matching done event and as the id of an item of the output of    *)
(* the final response.completed.  The code fails for a message opened by a *)
(* role announcement that no text follows (the defect of C1).              *)
(***************************************************************************)
C7_IdentifierStability ==
    JustCompleted =>
        LET es == Events
            final == es[Len(es)].response
            outputIds == {final.output[k].id : k \in 1..Len(final.output)}
        IN /\ \A p \in 1..Len(es) :
                "response" \in DOMAIN es[p] => es[p].response.id = final.id
           /\ \A p \in Positions(es, IsMessageAdded) :
                /\ \E q \in (p + 1)..Len(es) :
                     IsMessageDone(es[q]) /\ es[q].item.id = es[p].item.id
                /\ es[p].item.id \in outputIds
           /\ \A p \in Positions(es, IsPartAdded) :
                /\ \E q \in (p + 1)..Len(es) :
                     IsPartDone(es[q]) /\ es[q].item_id = es[p].item_id
                /\ es[p].item_id \in outputIds
           /\ \A p \in Positions(es, IsCallAdded) :
                /\ \E q \in (p + 1)..Len(es) :
                     IsCallDone(es[q]) /\ es[q].item.id = es[p].item.id
                /\ es[p].item.id \in outputIds

(***************************************************************************)
(* C8. For every tool call, the concatenation in emission order of the     *)
(* delta fields of its function_call_arguments.delta events equals the     *)
(* arguments of its function_call_arguments.done event and of its          *)
(* function_call output_item.done event; a finishing chunk emits both for  *)
(* every tool-call index seen.                                             *)
(***************************************************************************)
DoneArguments(e) == IF IsArgsDone(e) THEN e.arguments ELSE e.item.arguments

C8_ArgumentReconstruction ==
    LET es == Events IN
    /\ \A p \in Positions(es, IsArgsDone) \cup Positions(es, IsCallDone) :
         DoneArguments(es[p]) =
             ConcatDeltas(es, {q \in Before(es, p, IsArgsDelta) :
                                  es[q].item_id = ItemOf(es[p])})
    /\ JustCompleted =>
         LET last == calls[Len(calls)].events IN
         \A k \in DOMAIN adapter.toolCallItemIDs :
             /\ \E p \in Positions(last, IsArgsDone) :
                    last[p].item_id = adapter.toolCallItemIDs[k]
             /\ \E p \in Positions(last, IsCallDone) :
                    last[p].item.id = adapter.toolCallItemIDs[k]

\* two tool calls whose fragments "x" and "y" arrived interleaved are closed
C8_Witness ==
    /\ JustCompleted
    /\ Len(calls) = 2
    /\ DOMAIN adapter.toolCallItemIDs = {0, 1}
    /\ \A k \in {0, 1} :
         \E p \in Positions(Events, IsArgsDone) :
             /\ Events[p].item_id = adapter.toolCallItemIDs[k]
             /\ Events[p].arguments = "xy"

(***************************************************************************)
(* C9. The status of response.completed and of the converted complete      *)
(* response is `incomplete` for finish reason `length`, `failed` for       *)
(* `content_filter`, and `completed` for any other finish reason and for   *)
(* a complete response without choices.                                    *)
(***************************************************************************)
StatusFor(finishReason, status) ==
    /\ finishReason = "length" => status = "incomplete"
    /\ finishReason = "content_filter" => status = "failed"
    /\ finishReason \notin {"length", "content_filter"} => status = "completed"

FinishReasonOfCall(i) == Deref(Deref(calls[i].chunk).Choices[1].FinishReason)

C9_StatusMapping ==
    /\ \A i \in 1..Len(calls) : \A p \in Positions(calls[i].events, IsCompleted) :
         StatusFor(FinishReasonOfCall(i), calls[i].events[p].response.status)
    /\ (nonStream # <<>> /\ nonStream[1].resp # Nil) =>
         LET in == Deref(nonStream[1].chatResp)
             out == Deref(nonStream[1].resp)
         IN IF in.Choices = <<>> THEN out.Status = "completed"
            ELSE StatusFor(in.Choices[1].FinishReason, out.Status)

\* a stream finished by `length` after one finished by `content_filter`
C9_Witness ==
    /\ Len(calls) = 2
    /\ CompletedCalls = {1, 2}
    /\ FinishReasonOfCall(1) = "content_filter"
    /\ FinishReasonOfCall(2) = "length"
    /\ Events[Len(Events)].response.status = "incomplete"

(***************************************************************************)
(* C10. The emitted input_tokens is the source's input_tokens when the     *)
(* source set it (> 0) and its prompt_tokens otherwise; the emitted        *)
(* output_tokens is the source's output_tokens when set and its            *)
(* completion_tokens otherwise; in the stream and in the complete          *)
(* response.                                                               *)
(***************************************************************************)
UsageFor(u, inputTokens, outputTokens) ==
    /\ u.InputTokens > 0 => inputTokens = u.InputTokens
    /\ u.InputTokens = 0 => inputTokens = u.PromptTokens
    /\ u.OutputTokens > 0 => outputTokens = u.OutputTokens
    /\ u.OutputTokens = 0 => outputTokens = u.CompletionTokens

C10_UsagePrecedence ==
    /\ \A i \in 1..Len(calls) : \A p \in Positions(calls[i].events, IsCompleted) :
         LET src == Deref(calls[i].chunk).Usage
             got == calls[i].events[p].response.usage
         IN IF src = Nil THEN got = Nil
            ELSE /\ got # Nil
                 /\ UsageFor(Deref(src), Deref(got).input_tokens, Deref(got).output_tokens)
    /\ (nonStream # <<>> /\ nonStream[1].resp # Nil) =>
         LET src == Deref(nonStream[1].chatResp).Usage
             got == Deref(nonStream[1].resp).Usage
         IN /\ got # Nil
            /\ UsageFor(src, Deref(got).InputTokens, Deref(got).OutputTokens)

\* the finishing chunk sets prompt_tokens 1 and input_tokens 3, and leaves
\* output_tokens unset beside completion_tokens 2
C10_Witness ==
    /\ JustCompleted
    /\ LET src == Deref(calls[Len(calls)].chunk).Usage
           got == Events[Len(Events)].response.usage
       IN /\ src # Nil
          /\ Deref(src).PromptTokens = 1 /\ Deref(src).InputTokens = 3
          /\ Deref(src).OutputTokens = 0
          /\ Deref(got).input_tokens = 3 /\ Deref(got).output_tokens = 2

(***************************************************************************)
(* The specification of reasoning: streams whose chunks vary role,         *)
(* reasoning_content, text and finish reason.                              *)
(***************************************************************************)
ReasoningChunks ==
    { Nil }
    \cup { mkChunk("", << mkChoice(role, content, reasoning, <<>>, finish) >>, Nil) :
             role \in {"", "assistant"}, content \in {Nil, Ptr("42")},
             reasoning \in {Nil, Ptr(""), Ptr("because")},
             finish \in {Nil, Ptr("stop")} }

NextReasoning ==
    \E chunkPtr \in ReasoningChunks :
        \E order1, order2 \in Perms(keysAfter(adapter, chunkPtr)) :
            ConvertChunk(chunkPtr, order1, order2)

SpecReasoning == Init /\ [][NextReasoning]_vars

\* the non-empty reasoning_content of call i's chunk, "" when there is none
ReasoningOfCall(i) ==
    LET c == calls[i].chunk IN
    IF c = Nil \/ Deref(c).Choices = <<>> THEN ""
    ELSE LET r == Deref(c).Choices[1].Delta.ReasoningContent
         IN IF r = Nil THEN "" ELSE Deref(r)

IsReasoningDelta(e) == e.type = "response.reasoning.delta"
IsReasoningPart(e) == IsPartAdded(e) /\ e.part.type = "reasoning"
IsTextPart(e) == IsPartAdded(e) /\ e.part.type = "output_text"

(***************************************************************************)
(* C11. Every chunk whose reasoning_content is non-empty yields a          *)
(* response.reasoning.delta carrying that text, the first one preceded by  *)
(* a content_part.added of type reasoning; when reasoning and text both    *)
(* occur, the reasoning part's content_index is below the text part's, and *)
(* the message item of response.completed.output lists the reasoning part  *)
(* before the output_text part.  The code's reasoning branch is empty.     *)
(***************************************************************************)
C11_ReasoningStream ==
    LET es == Events IN
    /\ \A i \in 1..Len(calls) :
         ReasoningOfCall(i) # "" =>
             \E p \in Positions(calls[i].events, IsReasoningDelta) :
                 calls[i].events[p].delta = ReasoningOfCall(i)
    /\ \A p \in Positions(es, IsReasoningDelta) : Before(es, p, IsReasoningPart) # {}
    /\ \A p \in Positions(es, IsReasoningPart) : \A q \in Positions(es, IsTextPart) :
         es[p].content_index < es[q].content_index
    /\ JustCompleted =>
         LET out == es[Len(es)].response.output IN
         (\E i \in 1..Len(calls) : ReasoningOfCall(i) # "")
             => /\ out # <<>>
                /\ out[1].type = "message"
                /\ out[1].content[1].type = "reasoning"

(***************************************************************************)
(* Reading the chunks given to the adapter.                                *)
(***************************************************************************)
\* the first choice of call i's chunk
ChoiceOfCall(i) == Deref(calls[i].chunk).Choices[1]

HasChoice(i) == calls[i].chunk # Nil /\ Deref(calls[i].chunk).Choices # <<>>

\* the chunk of call i carries a non-empty finish reason
HasFinish(i) ==
    /\ HasChoice(i)
    /\ ChoiceOfCall(i).FinishReason # Nil
    /\ Deref(ChoiceOfCall(i).FinishReason) # ""

\* the non-empty text of call i's chunk, "" when there is none
ContentOfCall(i) ==
    IF ~HasChoice(i) \/ ChoiceOfCall(i).Delta.Content = Nil THEN ""
    ELSE Deref(ChoiceOfCall(i).Delta.Content)

\* every chunk has a choice, and the last chunk, and only that one, has a
\* finish reason
FinishedByLastChunk ==
    /\ calls # <<>>
    /\ \A i \in 1..Len(calls) : HasChoice(i) /\ (HasFinish(i) <=> i = Len(calls))

TypesOf(es) == [p \in 1..Len(es) |-> es[p].type]

\* n copies of the event type t
RECURSIVE Repeat(_, _)
Repeat(t, n) == IF n = 0 THEN <<>> ELSE <<t>> \o Repeat(t, n - 1)

TextOnlyStream ==
    /\ FinishedByLastChunk
    /\ \A i \in 1..Len(calls) :
         /\ ChoiceOfCall(i).Delta.ToolCalls = <<>>
         /\ ReasoningOfCall(i) = ""
    /\ ChoiceOfCall(1).Delta.Role = "assistant"

(***************************************************************************)
(* C12. Text-only lifecycle: a stream without tool calls and reasoning,    *)
(* whose first chunk announces role "assistant" and whose last chunk alone *)
(* has a finish reason, yields exactly response.created, in_progress,      *)
(* output_item.added, content_part.added, one output_text.delta per chunk  *)
(* with non-empty content, output_text.done, content_part.done,            *)
(* output_item.done, response.completed, in that order, all text deltas    *)
(* with the same content_index and item_id.                                *)
(***************************************************************************)
C12_TextOnlyLifecycle ==
    TextOnlyStream =>
        LET es == Events
            n == Cardinality({i \in 1..Len(calls) : ContentOfCall(i) # ""})
        IN /\ TypesOf(es) =
                  << "response.created", "response.in_progress",
                     "response.output_item.added", "response.content_part.added" >>
                  \o Repeat("response.output_text.delta", n)
                  \o << "response.output_text.done", "response.content_part.done",
                        "response.output_item.done", "response.completed" >>
           /\ \A p, q \in {x \in 1..Len(es) : es[x].type = "response.output_text.delta"} :
                /\ es[p].content_index = es[q].content_index
                /\ es[p].item_id = es[q].item_id

(***************************************************************************)
(* The specification of the tool-call lifecycle: chunks without role and   *)
(* text, with or without tool-call fragments, finished by "tool_calls".    *)
(***************************************************************************)
ToolCallChunks ==
    { Nil }
    \cup { mkChunk("", << mkChoice("", Nil, Nil, tcs, finish) >>, Nil) :
             tcs \in ToolLists \cup { <<>> }, finish \in {Nil, Ptr("tool_calls")} }

NextToolCall ==
    \E chunkPtr \in ToolCallChunks :
        \E order1, order2 \in Perms(keysAfter(adapter, chunkPtr)) :
            ConvertChunk(chunkPtr, order1, order2)

SpecToolCall == Init /\ [][NextToolCall]_vars

\* the tool-call entries of all chunks, in the order received
AllToolCalls == Flatten([i \in 1..Len(calls) |->
                    IF HasChoice(i) THEN ChoiceOfCall(i).Delta.ToolCalls ELSE <<>>])

\* the concatenation of the arguments fragments of the entries tcs
RECURSIVE ConcatArguments(_)
ConcatArguments(tcs) ==
    IF tcs = <<>> THEN ""
    ELSE Head(tcs).Function.Arguments \o ConcatArguments(Tail(tcs))

\* a stream of one tool call at upstream index 0, without role and text
ToolCallOnlyStream ==
    /\ FinishedByLastChunk
    /\ FinishReasonOfCall(Len(calls)) = "tool_calls"
    /\ \A i \in 1..Len(calls) :
         /\ ChoiceOfCall(i).Delta.Role = ""
         /\ ContentOfCall(i) = ""
         /\ ReasoningOfCall(i) = ""
    /\ \A k \in 1..Len(AllToolCalls) : AllToolCalls[k].Index = Ptr(0)
    /\ ChoiceOfCall(1).Delta.ToolCalls # <<>>
    /\ AllToolCalls[1].ID # ""
    /\ AllToolCalls[1].Function.Name # ""

(***************************************************************************)
(* C13. Tool-call-only lifecycle: for a stream of one tool call at         *)
(* upstream index 0, without role and text, finished by "tool_calls", the  *)
(* events are response.created, response.in_progress, one output_item.added*)
(* for a function_call item with the call_id and name and output_index 1,  *)
(* one function_call_arguments.delta per non-empty fragment, one           *)
(* function_call_arguments.done with the concatenated arguments, one       *)
(* output_item.done, and response.completed.                               *)
(***************************************************************************)
C13_ToolCallOnlyLifecycle ==
    ToolCallOnlyStream =>
        LET es == Events
            frags == SelectSeq(AllToolCalls, LAMBDA tc : tc.Function.Arguments # "")
            n == Len(frags)
        IN /\ TypesOf(es) =
                  << "response.created", "response.in_progress",
                     "response.output_item.added" >>
                  \o Repeat("response.function_call_arguments.delta", n)
                  \o << "response.function_call_arguments.done",
                        "response.output_item.done", "response.completed" >>
           /\ es[3].item.type = "function_call"
           /\ es[3].item.call_id = AllToolCalls[1].ID
           /\ es[3].item.name = AllToolCalls[1].Function.Name
           /\ es[3].output_index = 1
           /\ \A k \in 1..n : /\ es[3 + k].delta = frags[k].Function.Arguments
                              /\ es[3 + k].item_id = es[3].item.id
           /\ es[4 + n].arguments = ConcatArguments(AllToolCalls)
           /\ es[4 + n].item_id = es[3].item.id
           /\ es[5 + n].item.id = es[3].item.id
           /\ es[5 + n].item.type = "function_call"

\* the stream head0x, frag0y + finish: two deltas, arguments "xy"
C13_Witness ==
    /\ ToolCallOnlyStream
    /\ Len(calls) = 2
    /\ Len(Events) = 8
    /\ Events[6].arguments = "xy"
    /\ IsCompleted(Events[8])

\* the item ids of the events of es that satisfy P, in the order of es
IdsOf(es, P(_)) ==
    LET sel == SelectSeq(es, P) IN [k \in 1..Len(sel) |-> ItemOf(sel[k])]

(***************************************************************************)
(* C14. On the finishing chunk the closing events come in a fixed order:   *)
(* the done events of the message item first, then for each open tool call,*)
(* in the order in which the tool-call indices were first seen,            *)
(* function_call_arguments.done immediately followed by the output_item.   *)
(* done of the same call, and response.completed last.  The code ranges    *)
(* over a Go map, whose iteration order is not the order of insertion.     *)
(***************************************************************************)
C14_ClosingOrder ==
    JustCompleted =>
        LET b == calls[Len(calls)].events
            msgDone == Positions(b, IsTextDone) \cup Positions(b, IsPartDone)
                           \cup Positions(b, IsMessageDone)
            argsDone == Positions(b, IsArgsDone)
            callDone == Positions(b, IsCallDone)
        IN /\ Positions(b, IsCompleted) = {Len(b)}
           /\ \A p \in msgDone : \A q \in argsDone \cup callDone : p < q
           /\ \A p \in argsDone :
                /\ p + 1 \in callDone
                /\ b[p + 1].item.id = b[p].item_id
           /\ Cardinality(callDone) = Cardinality(argsDone)
           /\ IdsOf(b, IsArgsDone) = IdsOf(Events, IsCallAdded)

\* the first n events of es
Prefix(es, n) == SubSeq(es, 1, n)

IsMessageOut(o) == o.type = "message"
IsCallOut(o) == o.type = "function_call"

(***************************************************************************)
(* C15. The output array of response.completed is a snapshot of the        *)
(* stream: the message item first if and only if a message item was opened *)
(* (its output_item.added was emitted), then exactly one function_call     *)
(* item per tool-call index seen, with the fc_ identifier and the full     *)
(* accumulated arguments of that call, in the order the calls were opened. *)
(***************************************************************************)
C15_OutputSnapshot ==
    LET es == Events IN
    \A p \in Positions(es, IsCompleted) :
        LET out == es[p].response.output
            opened == Before(es, p, IsMessageAdded) # {}
            callsOut == SelectSeq(out, IsCallOut)
        IN /\ opened <=> (out # <<>> /\ IsMessageOut(out[1]))
           /\ \A k \in 2..Len(out) : ~IsMessageOut(out[k])
           /\ [k \in 1..Len(callsOut) |-> callsOut[k].id]
                  = IdsOf(Prefix(es, p), IsCallAdded)
           /\ \A k \in 1..Len(callsOut) :
                callsOut[k].arguments =
                    ConcatDeltas(es, {q \in Before(es, p, IsArgsDelta) :
                                        es[q].item_id = callsOut[k].id})

IsTextDelta(e) == e.type = "response.output_text.delta"
IsClosing(e) ==
    \/ IsCompleted(e) \/ IsTextDone(e) \/ IsPartDone(e)
    \/ IsMessageDone(e) \/ IsArgsDone(e) \/ IsCallDone(e)

(***************************************************************************)
(* C16. The adapter never synthesises completion: response.completed and   *)
(* every closing *.done event are emitted only by a ConvertChunk call whose*)
(* chunk has a first choice with a non-empty finish_reason; a sequence of  *)
(* chunks none of which has one yields no response.completed.              *)
(***************************************************************************)
C16_NoSynthesisedCompletion ==
    /\ \A i \in 1..Len(calls) :
         Positions(calls[i].events, IsClosing) # {} => HasFinish(i)
    /\ (\A i \in 1..Len(calls) : ~HasFinish(i)) => Positions(Events, IsCompleted) = {}

\* two chunks without a finish reason, one of them with a pointer to the empty
\* string as finish_reason, the other with text: nothing is closed
C16_Witness ==
    /\ Len(calls) = 2
    /\ \A i \in 1..2 : ~HasFinish(i)
    /\ HasChoice(1) /\ ChoiceOfCall(1).FinishReason = Ptr("")
    /\ Positions(calls[2].events, IsTextDelta) # {}
    /\ Positions(Events, IsClosing) = {}

(***************************************************************************)
(* C17. A nil chunk is a no-op: ConvertChunk(nil) returns an empty batch   *)
(* and leaves every field of the adapter unchanged (no identifier is       *)
(* minted either), so the events of the other chunks are those of the      *)
(* sequence without the nil chunks.                                        *)
(***************************************************************************)
C17_NilChunkNoOp ==
    [][ (Len(calls') = Len(calls) + 1 /\ calls'[Len(calls')].chunk = Nil)
            => /\ calls'[Len(calls')].events = <<>>
               /\ adapter' = adapter
               /\ uuid' = uuid ]_vars

\* a nil chunk came first; the next chunk still opens the response
C17_Witness ==
    /\ Len(calls) = 2
    /\ calls[1].chunk = Nil
    /\ calls[1].events = <<>>
    /\ calls[2].events # <<>>
    /\ calls[2].events[1].type = "response.created"

(***************************************************************************)
(* Two adapters, each serving its own stream, their ConvertChunk calls     *)
(* interleaved.  The only thing the two share is the identifier source.    *)
(***************************************************************************)
\* ConvertChunkOn as if the two tool-call maps were shared by all adapters
ConvertChunkOnSharedMaps(self, other, u, chunkPtr, order1, order2) ==
    LET r == ConvertChunkResult(self, u, chunkPtr, order1, order2)
    IN [ self |-> r.a,
         other |-> [other EXCEPT !.toolCallItemIDs = r.a.toolCallItemIDs,
                                 !.toolCallArguments = r.a.toolCallArguments],
         uuid |-> r.uuid, events |-> r.events ]

\* ConvertChunk called on the adapter self while the adapter other exists: the
\* method reads and writes the fields of its receiver, the maps among them made
\* by the receiver's own constructor call, and draws identifiers from GetUUID
ConvertChunkOn(self, other, u, chunkPtr, order1, order2) ==
    LET r == ConvertChunkResult(self, u, chunkPtr, order1, order2)
    IN [ self |-> r.a, other |-> other, uuid |-> r.uuid, events |-> r.events ]

\* the chunks of the two streams: text, two tool calls, a fragment, finish
TwoChunks ==
    { mkChunk("", << mkChoice("assistant", Ptr("Hi"), Nil, <<>>, Nil) >>, Nil),
      mkChunk("", << mkChoice("", Nil, Nil, <<head0x>>, Nil) >>, Nil),
      mkChunk("", << mkChoice("", Nil, Nil, <<frag0y>>, Nil) >>, Nil),
      mkChunk("", << mkChoice("", Nil, Nil, <<head1x>>, Ptr("stop")) >>, Nil) }

\* both adapters are constructed before the first chunk arrives
InitTwo ==
    /\ adapter = NewChatToResponsesStreamAdapter(0, 0)
    /\ adapterB = Ptr(NewChatToResponsesStreamAdapter(2, 0))
    /\ uuid = 4
    /\ calls = <<>>
    /\ callsB = <<>>
    /\ nonStream = <<>>
    /\ requests = <<>>

\* one ConvertChunk call on the first adapter
ConvertChunkA(chunkPtr, order1, order2) ==
    /\ Len(calls) < MaxChunks
    /\ LET r == ConvertChunkOn(adapter, Deref(adapterB), uuid, chunkPtr, order1, order2)
       IN /\ adapter' = r.self
          /\ adapterB' = Ptr(r.other)
          /\ uuid' = r.uuid
          /\ calls' = Append(calls, [chunk |-> chunkPtr, events |-> r.events])
    /\ UNCHANGED <<callsB, nonStream, requests>>

\* one ConvertChunk call on the second adapter
ConvertChunkB(chunkPtr, order1, order2) ==
    /\ Len(callsB) < MaxChunks
    /\ LET r == ConvertChunkOn(Deref(adapterB), adapter, uuid, chunkPtr, order1, order2)
       IN /\ adapterB' = Ptr(r.self)
          /\ adapter' = r.other
          /\ uuid' = r.uuid
          /\ callsB' = Append(callsB, [chunk |-> chunkPtr, events |-> r.events])
    /\ UNCHANGED <<calls, nonStream, requests>>

NextTwo ==
    \/ \E chunkPtr \in TwoChunks :
           \E order1, order2 \in Perms(keysAfter(adapter, chunkPtr)) :
               ConvertChunkA(chunkPtr, order1, order2)
    \/ \E chunkPtr \in TwoChunks :
           \E order1, order2 \in Perms(keysAfter(Deref(adapterB), chunkPtr)) :
               ConvertChunkB(chunkPtr, order1, order2)

SpecTwo == InitTwo /\ [][NextTwo]_vars

\* the identifiers an adapter owns
OwnIds(a) ==
    {a.ResponseID, a.messageItemID}
        \cup {a.toolCallItemIDs[k] : k \in DOMAIN a.toolCallItemIDs}

\* the identifier id of adapter a, renumbered by the order in which a's
\* identifiers were minted: the identifier a would hold had it run alone
Renumber(a, id) ==
    << id[1], 1 + Cardinality({j \in OwnIds(a) : j[2] < id[2]}) >>

RenumberItems(a, items) ==
    [k \in 1..Len(items) |-> [items[k] EXCEPT !.id = Renumber(a, @)]]

RenumberResponse(a, r) ==
    LET r1 == [r EXCEPT !.id = Renumber(a, @)]
    IN IF "output" \in DOMAIN r
       THEN [r1 EXCEPT !.output = RenumberItems(a, @)]
       ELSE r1

RenumberEvent(a, e) ==
    IF "response" \in DOMAIN e THEN [e EXCEPT !.response = RenumberResponse(a, @)]
    ELSE IF "item" \in DOMAIN e THEN [e EXCEPT !.item.id = Renumber(a, @)]
    ELSE IF "item_id" \in DOMAIN e THEN [e EXCEPT !.item_id = Renumber(a, @)]
    ELSE e

RenumberCalls(a, hist) ==
    [i \in 1..Len(hist) |->
        [ chunk |-> hist[i].chunk,
          events |-> [p \in 1..Len(hist[i].events) |->
                         RenumberEvent(a, hist[i].events[p])] ]]

\* the batches of hist from call k on are those of the adapter a, alone with
\* the identifier source at u, given the chunks of hist
RECURSIVE AloneFrom(_, _, _, _)
AloneFrom(a, u, hist, k) ==
    IF k > Len(hist) THEN TRUE
    ELSE \E order1, order2 \in Perms(keysAfter(a, hist[k].chunk)) :
             LET r == ConvertChunkResult(a, u, hist[k].chunk, order1, order2)
             IN /\ r.events = hist[k].events
                /\ AloneFrom(r.a, r.uuid, hist, k + 1)

\* hist is a run of one adapter processing its chunks alone
RunsAlone(hist) == AloneFrom(NewChatToResponsesStreamAdapter(0, 0), 2, hist, 1)

(***************************************************************************)
(* C18. No cross-stream state: with two adapters whose ConvertChunk calls  *)
(* are interleaved in any order, the events of each adapter (types,        *)
(* indices, texts, arguments, and its own identifiers, up to the values    *)
(* the identifier source hands out) are those of a run in which that       *)
(* adapter processes its chunk sequence alone.                             *)
(***************************************************************************)
C18_NoCrossStreamState ==
    adapterB # Nil =>
        /\ RunsAlone(RenumberCalls(adapter, calls))
        /\ RunsAlone(RenumberCalls(Deref(adapterB), callsB))
        /\ OwnIds(adapter) \cap OwnIds(Deref(adapterB)) = {}

\* the two streams interleaved call by call, both with tool calls and both
\* completed; the identifiers of the tool calls alternate between the adapters
C18_Witness ==
    /\ adapterB # Nil
    /\ Len(calls) = 2 /\ Len(callsB) = 2
    /\ adapter.toolCallItemIDs = (0 :> <<"fc", 6>> @@ 1 :> <<"fc", 8>>)
    /\ Deref(adapterB).toolCallItemIDs = (0 :> <<"fc", 5>> @@ 1 :> <<"fc", 7>>)
    /\ Positions(calls[2].events, IsCompleted) # {}
    /\ Positions(callsB[2].events, IsCompleted) # {}

(***************************************************************************)
(* ResponsesRequestToChatCompletionsRequest.                               *)
(*                                                                         *)
(* A JSON value, and a Go value of type any that holds decoded JSON, is a  *)
(* record [t, v]: t is the JSON type, v a string, a number, a boolean, a   *)
(* sequence of values or a map from keys to values.  A raw JSON field of   *)
(* the request (a byte slice) is Nil when empty and Ptr(value) otherwise.  *)
(***************************************************************************)
JStr(s)  == [t |-> "string", v |-> s]
JNum(n)  == [t |-> "number", v |-> n]
JBool(b) == [t |-> "boolean", v |-> b]
JArr(xs) == [t |-> "array", v |-> xs]
JObj(m)  == [t |-> "object", v |-> m]
JNull    == [t |-> "null", v |-> <<>>]

\* a nil interface value
GoNil == [t |-> "nil", v |-> <<>>]

\* common.GetJsonType
GetJsonType(j) == j.t

\* m[k].(string): the string under key k, "" when absent or not a string
AsString(m, k) == IF k \in DOMAIN m /\ m[k].t = "string" THEN m[k].v ELSE ""

\* common.Unmarshal into []map[string]any: every element must be an object or
\* null (a nil map); ok is FALSE when the decoder reports an error
UnmarshalMaps(j) ==
    IF j.t = "null" THEN [ok |-> TRUE, maps |-> <<>>]
    ELSE IF j.t # "array" THEN [ok |-> FALSE, maps |-> <<>>]
    ELSE IF \E k \in 1..Len(j.v) : j.v[k].t \notin {"object", "null"}
         THEN [ok |-> FALSE, maps |-> <<>>]
         ELSE [ok |-> TRUE,
               maps |-> [k \in 1..Len(j.v) |->
                            IF j.v[k].t = "object" THEN j.v[k].v ELSE <<>>]]

\* the strings strings.TrimSpace reduces to ""
Blank == {"", " ", "  "}
TrimSpace(s) == IF s \in Blank THEN "" ELSE s

\* dto.Message
mkChatMessage(role, content, toolCalls, toolCallId) ==
    [ Role |-> role, Content |-> content, ToolCalls |-> toolCalls,
      ToolCallId |-> toolCallId ]

\* dto.ToolCallResponse
mkToolCallResponse(id, name, arguments) ==
    [ ID |-> id, Type |-> "function",
      Function |-> [ Name |-> name, Arguments |-> arguments ] ]

\* the JSON encoding of a list of dto.ToolCallResponse
MarshalToolCalls(tcs) ==
    JArr([k \in 1..Len(tcs) |->
            JObj([ id |-> JStr(tcs[k].ID), type |-> JStr(tcs[k].Type),
                   function |-> JObj([ name |-> JStr(tcs[k].Function.Name),
                                       arguments |-> JStr(tcs[k].Function.Arguments) ]) ])])

\* common.Unmarshal of message.tool_calls into []dto.ToolCallResponse
UnmarshalToolCalls(raw) ==
    IF raw = Nil THEN <<>>
    ELSE LET xs == Deref(raw).v
             fn(o) == IF "function" \in DOMAIN o /\ o["function"].t = "object"
                      THEN o["function"].v ELSE <<>>
         IN [k \in 1..Len(xs) |->
                [ ID |-> AsString(xs[k].v, "id"), Type |-> AsString(xs[k].v, "type"),
                  Function |-> [ Name |-> AsString(fn(xs[k].v), "name"),
                                 Arguments |-> AsString(fn(xs[k].v), "arguments") ] ]]

\* dto.Message.SetToolCalls
SetToolCalls(msg, tcs) == [msg EXCEPT !.ToolCalls = Ptr(MarshalToolCalls(tcs))]

\* extractImageURL reading only the string form of image_url
extractImageURLStringOnly(partMap) ==
    IF "image_url" \in DOMAIN partMap /\ partMap["image_url"].t = "string"
    THEN partMap["image_url"].v
    ELSE ""

\* extractImageURL: image_url as a string, or as an object with a string url
extractImageURL(partMap) ==
    IF "image_url" \in DOMAIN partMap /\ partMap["image_url"].t = "string"
    THEN partMap["image_url"].v
    ELSE IF "image_url" \in DOMAIN partMap /\ partMap["image_url"].t = "object"
    THEN AsString(partMap["image_url"].v, "url")
    ELSE ""

\* the chat parts (none or one) one content part is converted to
convertPart(part) ==
    IF part.t # "object" THEN <<>>
    ELSE LET partMap == part.v
             partType == AsString(partMap, "type")
         IN CASE partType \in {"input_text", "output_text"} ->
                   << JObj([ type |-> JStr("text"),
                             text |-> JStr(AsString(partMap, "text")) ]) >>
              [] partType = "input_image" ->
                   IF extractImageURL(partMap) # ""
                   THEN << JObj([ type |-> JStr("image_url"),
                                  image_url |-> JObj([ url |->
                                      JStr(extractImageURL(partMap)) ]) ]) >>
                   ELSE <<>>
              [] partType = "input_audio" ->
                   IF "input_audio" \in DOMAIN partMap
                   THEN << JObj([ type |-> JStr("input_audio"),
                                  input_audio |-> partMap["input_audio"] ]) >>
                   ELSE <<>>
              [] partType = "input_file" ->
                   IF "file" \in DOMAIN partMap
                   THEN << JObj([ type |-> JStr("file"), file |-> partMap["file"] ]) >>
                   ELSE <<>>
              [] OTHER -> << part >>

\* convertResponsesContent: a string stays a string; an array becomes the array
\* of its converted parts, or "" when no part is left; anything else is ""
convertResponsesContent(content) ==
    CASE content.t = "string" -> content
      [] content.t = "array" ->
           LET chatParts == Flatten([k \in 1..Len(content.v) |-> convertPart(content.v[k])])
           IN IF Len(chatParts) > 0 THEN JArr(chatParts) ELSE JStr("")
      [] OTHER -> JStr("")

\* case "message", "": the role defaults to "user"; content is converted when
\* the item has the key
messageItem(item) ==
    LET role == IF AsString(item, "role") = "" THEN "user" ELSE AsString(item, "role")
    IN mkChatMessage(role,
                     IF "content" \in DOMAIN item
                     THEN convertResponsesContent(item["content"]) ELSE GoNil,
                     Nil, "")

\* foldFunctionCall adding the call to the latest assistant message, wherever it is
foldFunctionCallIntoAnyAssistant(messages, item) ==
    LET callID == AsString(item, "call_id")
        name == AsString(item, "name")
        toolCall == mkToolCallResponse(callID, name, AsString(item, "arguments"))
        asst == {k \in 1..Len(messages) : messages[k].Role = "assistant"}
    IN IF callID # "" /\ name # ""
       THEN IF asst # {}
            THEN LET lastIdx == CHOOSE k \in asst : \A j \in asst : j <= k
                 IN [messages EXCEPT ![lastIdx] =
                        SetToolCalls(@, Append(UnmarshalToolCalls(@.ToolCalls), toolCall))]
            ELSE Append(messages,
                        SetToolCalls(mkChatMessage("assistant", GoNil, Nil, ""),
                                     << toolCall >>))
       ELSE messages

\* case "function_call": a call with call_id and name is added to the tool calls
\* of the last message when that is an assistant message, and otherwise put in a
\* new assistant message; a call without call_id or name is skipped
foldFunctionCall(messages, item) ==
    LET callID == AsString(item, "call_id")
        name == AsString(item, "name")
        toolCall == mkToolCallResponse(callID, name, AsString(item, "arguments"))
        lastIdx == Len(messages)
    IN IF callID # "" /\ name # ""
       THEN IF lastIdx >= 1 /\ messages[lastIdx].Role = "assistant"
            THEN [messages EXCEPT ![lastIdx] =
                    SetToolCalls(@, Append(UnmarshalToolCalls(@.ToolCalls), toolCall))]
            ELSE Append(messages,
                        SetToolCalls(mkChatMessage("assistant", GoNil, Nil, ""),
                                     << toolCall >>))
       ELSE messages

\* appendToolOutput keeping outputs without call_id
appendToolOutputAlways(messages, item) ==
    Append(messages, mkChatMessage("tool", JStr(AsString(item, "output")), Nil,
                                   AsString(item, "call_id")))

\* case "function_call_output": a tool message, skipped without call_id
appendToolOutput(messages, item) ==
    LET callID == AsString(item, "call_id")
    IN IF callID # ""
       THEN Append(messages, mkChatMessage("tool", JStr(AsString(item, "output")), Nil,
                                           callID))
       ELSE messages

\* one iteration of the loop over the input items
stepItem(messages, item) ==
    LET itemType == AsString(item, "type") IN
    CASE itemType \in {"message", ""}        -> Append(messages, messageItem(item))
      [] itemType = "function_call"          -> foldFunctionCall(messages, item)
      [] itemType = "function_call_output"   -> appendToolOutput(messages, item)
      [] OTHER                               -> messages

RECURSIVE walkItems(_, _)
walkItems(messages, items) ==
    IF items = <<>> THEN messages
    ELSE walkItems(stepItem(messages, Head(items)), Tail(items))

UnmarshalError == "json: cannot unmarshal into Go value of type map[string]interface {}"

\* parseResponsesInput: the messages of the input field, or an error
parseResponsesInput(inputRaw) ==
    IF inputRaw = Nil THEN [messages |-> <<>>, err |-> ""]
    ELSE LET j == Deref(inputRaw) IN
         IF GetJsonType(j) = "string"
         THEN [messages |-> << mkChatMessage("user", j, Nil, "") >>, err |-> ""]
         ELSE IF GetJsonType(j) # "array"
         THEN [messages |-> <<>>, err |-> "input must be a string or array"]
         ELSE LET u == UnmarshalMaps(j) IN
              IF ~u.ok THEN [messages |-> <<>>, err |-> UnmarshalError]
              ELSE [messages |-> walkItems(<<>>, u.maps), err |-> ""]

\* convertResponsesTools
convertResponsesTools(toolsRaw) ==
    LET u == UnmarshalMaps(Deref(toolsRaw))
        one(tool) ==
            LET toolType == AsString(tool, "type") IN
            IF toolType = "function"
            THEN << [ Type |-> "function",
                      Function |-> [ Name |-> AsString(tool, "name"),
                                     Description |-> AsString(tool, "description"),
                                     Parameters |-> IF "parameters" \in DOMAIN tool
                                                    THEN tool["parameters"] ELSE GoNil ] ] >>
            ELSE IF toolType # ""
            THEN << [ Type |-> toolType,
                      Function |-> [ Name |-> "", Description |-> "",
                                     Parameters |-> GoNil ] ] >>
            ELSE <<>>
    IN IF ~u.ok THEN Nil
       ELSE Ptr(Flatten([k \in 1..Len(u.maps) |-> one(u.maps[k])]))

\* convertResponsesToolChoice
convertResponsesToolChoice(toolChoiceRaw) ==
    LET j == Deref(toolChoiceRaw) IN
    IF GetJsonType(j) = "string" THEN j
    ELSE IF j.t \notin {"object", "null"} THEN GoNil
    ELSE LET toolChoice == IF j.t = "object" THEN j.v ELSE <<>>
         IN IF AsString(toolChoice, "type") = "function"
               /\ AsString(toolChoice, "name") # ""
            THEN JObj([ type |-> JStr("function"),
                        function |-> JObj([ name |->
                            JStr(AsString(toolChoice, "name")) ]) ])
            ELSE IF j.t = "object" THEN j ELSE GoNil

\* dto.OpenAIResponsesRequest, the fields the conversion reads
mkRequest(model, instructions, input, tools, toolChoice, parallel, reasoning, topP) ==
    Ptr([ Model |-> model, Instructions |-> instructions, Input |-> input,
          Tools |-> tools, ToolChoice |-> toolChoice, ParallelToolCalls |-> parallel,
          Stream |-> TRUE, MaxOutputTokens |-> 64, Temperature |-> Ptr(1),
          TopP |-> topP, User |-> "u", Store |-> Ptr(JBool(TRUE)),
          Metadata |-> Ptr(JObj([k |-> JStr("v")])), Reasoning |-> reasoning ])

\* ResponsesRequestToChatCompletionsRequest: the chat request, or an error
ResponsesRequestToChatCompletionsRequest(reqPtr) ==
    IF reqPtr = Nil THEN [chatReq |-> Nil, err |-> "request is nil"]
    ELSE LET req == Deref(reqPtr) IN
    IF req.Model = "" THEN [chatReq |-> Nil, err |-> "model is required"]
    ELSE LET system ==
                 IF req.Instructions # Nil
                    /\ Deref(req.Instructions).t = "string"
                    /\ TrimSpace(Deref(req.Instructions).v) # ""
                 THEN << mkChatMessage("system", Deref(req.Instructions), Nil, "") >>
                 ELSE <<>>
             parsed == parseResponsesInput(req.Input)
             ptc == IF req.ParallelToolCalls = Nil THEN Nil
                    ELSE IF Deref(req.ParallelToolCalls).t = "boolean"
                    THEN Ptr(Deref(req.ParallelToolCalls).v)
                    ELSE IF Deref(req.ParallelToolCalls).t = "null"
                    THEN Ptr(FALSE) ELSE Nil
             effort == IF req.Reasoning # Nil
                          /\ Deref(req.Reasoning).Effort \notin {"", "none"}
                       THEN Deref(req.Reasoning).Effort ELSE ""
         IN IF parsed.err # "" THEN [chatReq |-> Nil, err |-> parsed.err]
            ELSE [ chatReq |-> Ptr([
                       Model |-> req.Model,
                       Messages |-> system \o parsed.messages,
                       Stream |-> req.Stream,
                       MaxTokens |-> req.MaxOutputTokens,
                       Temperature |-> req.Temperature,
                       Tools |-> IF req.Tools # Nil
                                 THEN convertResponsesTools(req.Tools) ELSE Nil,
                       ToolChoice |-> IF req.ToolChoice # Nil
                                      THEN convertResponsesToolChoice(req.ToolChoice)
                                      ELSE GoNil,
                       User |-> req.User,
                       ParallelTooCalls |-> ptc,
                       Store |-> req.Store,
                       Metadata |-> req.Metadata,
                       TopP |-> IF req.TopP # Nil THEN Deref(req.TopP) ELSE 0,
                       ReasoningEffort |-> effort ]),
                   err |-> "" ]

(***************************************************************************)
(* The requests given to the conversion.                                   *)
(***************************************************************************)
MaxItems == 3

textPart(type, text) == JObj([ type |-> JStr(type), text |-> JStr(text) ])

msgUserQ   == JObj([ type |-> JStr("message"), role |-> JStr("user"),
                     content |-> JArr(<< textPart("input_text", "Q") >>) ])
msgAsstA   == JObj([ type |-> JStr("message"), role |-> JStr("assistant"),
                     content |-> JStr("A") ])
msgSystemS == JObj([ type |-> JStr("message"), role |-> JStr("system"),
                     content |-> JStr("S") ])
msgNoType  == JObj([ content |-> JStr("hi") ])
fcC1       == JObj([ type |-> JStr("function_call"), call_id |-> JStr("c1"),
                     name |-> JStr("f"), arguments |-> JStr("{}") ])
fcC2       == JObj([ type |-> JStr("function_call"), call_id |-> JStr("c2"),
                     name |-> JStr("g"), arguments |-> JStr("[1]") ])
fcNoName   == JObj([ type |-> JStr("function_call"), call_id |-> JStr("c3"),
                     arguments |-> JStr("{}") ])
outC1      == JObj([ type |-> JStr("function_call_output"), call_id |-> JStr("c1"),
                     output |-> JStr("ok") ])
outC3      == JObj([ type |-> JStr("function_call_output"), call_id |-> JStr("c3"),
                     output |-> JStr("ok") ])
outNoId    == JObj([ type |-> JStr("function_call_output"), output |-> JStr("lost") ])
reasoningItem == JObj([ type |-> JStr("reasoning"), id |-> JStr("rs_1") ])

\* the input items the arrays are built from
InputItems ==
    << msgUserQ, msgAsstA, msgSystemS, msgNoType, fcC1, fcC2, fcNoName,
       outC1, outC3, outNoId, reasoningItem >>

\* the instructions of the requests with an input array
Instructions == << Nil, Ptr(JStr("Be brief")) >>

\* a request whose input is the array of the items choice[1], choice[2], ...
ArrayRequest(instructions, choice) ==
    mkRequest("m", instructions,
              Ptr(JArr([k \in 1..Len(choice) |-> InputItems[choice[k]]])),
              Nil, Nil, Nil, Nil, Nil)

functionTool == JObj([ type |-> JStr("function"), name |-> JStr("f"),
                       description |-> JStr("d"), parameters |-> JObj([type |-> JStr("object")]) ])

\* the other requests: nil, no model, inputs that are not arrays of objects,
\* instructions that yield no system message, tools, tool choice, reasoning
OtherRequests ==
    << Nil,
       mkRequest("", Nil, Ptr(JStr("hello")), Nil, Nil, Nil, Nil, Nil),
       mkRequest("m", Nil, Nil, Nil, Nil, Nil, Nil, Nil),
       mkRequest("m", Nil, Ptr(JStr("hello")), Nil, Nil, Nil, Nil, Nil),
       mkRequest("m", Nil, Ptr(msgUserQ), Nil, Nil, Nil, Nil, Nil),
       mkRequest("m", Nil, Ptr(JNull), Nil, Nil, Nil, Nil, Nil),
       mkRequest("m", Nil, Ptr(JNum(1)), Nil, Nil, Nil, Nil, Nil),
       mkRequest("m", Nil, Ptr(JArr(<< JStr("hello") >>)), Nil, Nil, Nil, Nil, Nil),
       mkRequest("m", Nil, Ptr(JArr(<< JNull >>)), Nil, Nil, Nil, Nil, Nil),
       mkRequest("m", Ptr(JStr("  ")), Ptr(JStr("hello")), Nil, Nil, Nil, Nil, Nil),
       mkRequest("m", Ptr(JNum(1)), Ptr(JStr("hello")), Nil, Nil, Nil, Nil, Nil),
       mkRequest("", Nil, Ptr(JNum(1)), Nil, Nil, Nil, Nil, Nil),
       mkRequest("m", Nil, Ptr(JStr("hello")),
                 Ptr(JArr(<< functionTool, JObj([type |-> JStr("web_search")]) >>)),
                 Ptr(JStr("auto")), Ptr(JBool(TRUE)), Ptr([Effort |-> "high"]), Ptr(1)),
       mkRequest("m", Nil, Ptr(JStr("hello")), Ptr(JStr("none")),
                 Ptr(JObj([ type |-> JStr("function"), name |-> JStr("f") ])),
                 Ptr(JNull), Ptr([Effort |-> "none"]), Nil) >>

\* one call of ResponsesRequestToChatCompletionsRequest
ConvertRequest(reqPtr) ==
    /\ LET r == ResponsesRequestToChatCompletionsRequest(reqPtr)
       IN requests' = << [ req |-> reqPtr, chatReq |-> r.chatReq, err |-> r.err ] >>
    /\ UNCHANGED <<adapter, uuid, calls, nonStream, adapterB, callsB>>

NextRequest ==
    /\ requests = <<>>
    /\ \/ \E n \in 0..MaxItems : \E choice \in [1..n -> 1..Len(InputItems)] :
              \E i \in 1..Len(Instructions) :
                  ConvertRequest(ArrayRequest(Instructions[i], choice))
       \/ \E k \in 1..Len(OtherRequests) : ConvertRequest(OtherRequests[k])

SpecRequest == Init /\ [][NextRequest]_vars

(***************************************************************************)
(* Reading the converted request.                                          *)
(***************************************************************************)
\* a request was converted and its input was walked as an array of items
WalkedArray ==
    /\ requests # <<>>
    /\ requests[1].chatReq # Nil
    /\ Deref(requests[1].req).Input # Nil
    /\ Deref(Deref(requests[1].req).Input).t = "array"

\* the items of that array, as the maps the loop ranges over
ReqItems == UnmarshalMaps(Deref(Deref(requests[1].req).Input)).maps

\* the instructions of the request gave a system message
HasSystemMessage ==
    LET i == Deref(requests[1].req).Instructions
    IN i # Nil /\ Deref(i).t = "string" /\ TrimSpace(Deref(i).v) # ""

\* the messages of the chat request that come from the input field
InputMessages ==
    LET ms == Deref(requests[1].chatReq).Messages
    IN IF HasSystemMessage THEN Tail(ms) ELSE ms

\* the messages produced once the first k items are walked
MessagesAfter(k) == walkItems(<<>>, SubSeq(ReqItems, 1, k))

IsFunctionCall(item) == AsString(item, "type") = "function_call"
IsFunctionCallOutput(item) == AsString(item, "type") = "function_call_output"
IsMessageItem(item) == AsString(item, "type") \in {"message", ""}
HasCallIDAndName(item) == AsString(item, "call_id") # "" /\ AsString(item, "name") # ""

ToolCallOf(item) ==
    mkToolCallResponse(AsString(item, "call_id"), AsString(item, "name"),
                       AsString(item, "arguments"))

\* next is prev with the call of item folded in: added to the tool calls of the
\* last message when that has role assistant, otherwise alone in a new
\* assistant message; every other message is left as it was
Folded(prev, next, item) ==
    IF prev # <<>> /\ prev[Len(prev)].Role = "assistant"
    THEN /\ Len(next) = Len(prev)
         /\ \A j \in 1..(Len(prev) - 1) : next[j] = prev[j]
         /\ next[Len(next)].Role = "assistant"
         /\ next[Len(next)].Content = prev[Len(prev)].Content
         /\ UnmarshalToolCalls(next[Len(next)].ToolCalls)
                = Append(UnmarshalToolCalls(prev[Len(prev)].ToolCalls), ToolCallOf(item))
    ELSE /\ Len(next) = Len(prev) + 1
         /\ \A j \in 1..Len(prev) : next[j] = prev[j]
         /\ next[Len(next)].Role = "assistant"
         /\ next[Len(next)].Content = GoNil
         /\ UnmarshalToolCalls(next[Len(next)].ToolCalls) = << ToolCallOf(item) >>

(***************************************************************************)
(* C19 as stated.  Walking the input array in order, every function_call   *)
(* item is appended to the tool_calls of the last message produced so far  *)
(* when that message has role assistant, and otherwise opens a new         *)
(* assistant message holding only that call.  A function_call item without *)
(* call_id or name is dropped by the code.                                 *)
(***************************************************************************)
C19_EveryFunctionCallFolded ==
    WalkedArray =>
        /\ MessagesAfter(Len(ReqItems)) = InputMessages
        /\ \A k \in 1..Len(ReqItems) :
             IsFunctionCall(ReqItems[k]) =>
                 Folded(MessagesAfter(k - 1), MessagesAfter(k), ReqItems[k])

(***************************************************************************)
(* C19, amended.  Walking the input array in order, a function_call item   *)
(* with a non-empty call_id and name is appended to the tool_calls of the  *)
(* last message produced so far when that message has role assistant, and *)
(* otherwise opens a new assistant message holding only that call; a       *)
(* function_call item without call_id or name produces nothing.  So a run  *)
(* of consecutive such items yields one assistant message listing them in  *)
(* input order, and no earlier message is ever modified.                   *)
(***************************************************************************)
C19_FunctionCallFolding ==
    WalkedArray =>
        /\ MessagesAfter(Len(ReqItems)) = InputMessages
        /\ \A k \in 1..Len(ReqItems) :
             IsFunctionCall(ReqItems[k]) =>
                 IF HasCallIDAndName(ReqItems[k])
                 THEN Folded(MessagesAfter(k - 1), MessagesAfter(k), ReqItems[k])
                 ELSE MessagesAfter(k) = MessagesAfter(k - 1)
        /\ \A k \in 1..(Len(ReqItems) - 1) :
             ( /\ IsFunctionCall(ReqItems[k]) /\ HasCallIDAndName(ReqItems[k])
               /\ IsFunctionCall(ReqItems[k + 1]) /\ HasCallIDAndName(ReqItems[k + 1]) )
             => LET m == MessagesAfter(k + 1)
                    tcs == UnmarshalToolCalls(m[Len(m)].ToolCalls)
                IN /\ Len(m) = Len(MessagesAfter(k))
                   /\ SubSeq(tcs, Len(tcs) - 1, Len(tcs))
                          = << ToolCallOf(ReqItems[k]), ToolCallOf(ReqItems[k + 1]) >>

\* [function_call c1, message user, function_call c2]: the second call opens a
\* new assistant message and the first assistant message keeps its one call
C19_Witness ==
    /\ WalkedArray
    /\ Deref(Deref(requests[1].req).Input).v = << fcC1, msgUserQ, fcC2 >>
    /\ Len(InputMessages) = 3
    /\ UnmarshalToolCalls(InputMessages[1].ToolCalls) = << ToolCallOf(fcC1.v) >>
    /\ InputMessages[2].Role = "user"
    /\ UnmarshalToolCalls(InputMessages[3].ToolCalls) = << ToolCallOf(fcC2.v) >>

\* the request of scenario S6 was converted
IsS6 ==
    /\ WalkedArray
    /\ Len(ReqItems) = 3
    /\ Deref(Deref(requests[1].req).Input).v = << msgUserQ, fcC1, outC1 >>

\* the role a message item gives its chat message
RoleOf(item) == IF AsString(item, "role") = "" THEN "user" ELSE AsString(item, "role")

\* next is prev followed by the chat message of the message item
MessageAppended(prev, next, item) ==
    /\ Len(next) = Len(prev) + 1
    /\ \A j \in 1..Len(prev) : next[j] = prev[j]
    /\ next[Len(next)].Role = RoleOf(item)
    /\ next[Len(next)].ToolCalls = Nil
    /\ ("content" \in DOMAIN item /\ item["content"].t = "string")
           => /\ next[Len(next)].Content.t = "string"
              /\ next[Len(next)].Content.v = item["content"].v

\* next is prev followed by the tool message of the function_call_output item
ToolMessageAppended(prev, next, item) ==
    /\ Len(next) = Len(prev) + 1
    /\ \A j \in 1..Len(prev) : next[j] = prev[j]
    /\ next[Len(next)] = mkChatMessage("tool", JStr(AsString(item, "output")), Nil,
                                       AsString(item, "call_id"))

\* the id, name and arguments of the tool calls of message m
ToolCallsOf(m) ==
    LET tcs == UnmarshalToolCalls(m.ToolCalls)
    IN [k \in 1..Len(tcs) |->
           << tcs[k].ID, tcs[k].Function.Name, tcs[k].Function.Arguments >>]

(***************************************************************************)
(* C20 as stated.  Scenario S6: the input array [message(user, content     *)
(* [input_text "Q"]), function_call(c1, f, "{}"), function_call_output(c1, *)
(* "ok")] is converted to exactly the three chat messages {role user,      *)
(* content "Q"}, {role assistant, tool_calls [c1: f "{}"]}, {role tool,    *)
(* content "ok", tool_call_id c1}; and every message and every             *)
(* function_call_output item yields its chat message at its position.  The *)
(* code keeps the content as a list of parts, and drops an output without  *)
(* call_id.                                                                *)
(***************************************************************************)
C20_S6AsStated ==
    /\ IsS6 =>
         LET ms == InputMessages IN
         /\ Len(ms) = 3
         /\ ms[1].Role = "user"
         /\ ms[1].Content.t = "string" /\ ms[1].Content.v = "Q"
         /\ ms[2].Role = "assistant"
         /\ ToolCallsOf(ms[2]) = << <<"c1", "f", "{}">> >>
         /\ ms[3] = mkChatMessage("tool", JStr("ok"), Nil, "c1")
    /\ WalkedArray =>
         \A k \in 1..Len(ReqItems) :
            /\ IsMessageItem(ReqItems[k]) =>
                   MessageAppended(MessagesAfter(k - 1), MessagesAfter(k), ReqItems[k])
            /\ IsFunctionCallOutput(ReqItems[k]) =>
                   ToolMessageAppended(MessagesAfter(k - 1), MessagesAfter(k), ReqItems[k])

(***************************************************************************)
(* C20, amended.  Scenario S6 is converted to exactly the three chat       *)
(* messages {role user, content [{type text, text "Q"}]}, {role assistant, *)
(* tool_calls [c1: f "{}"]}, {role tool, content "ok", tool_call_id c1};   *)
(* and every message item, and every function_call_output item with a      *)
(* non-empty call_id, yields its chat message at its position, in input    *)
(* order, while a function_call_output without call_id yields nothing.     *)
(***************************************************************************)
C20_S6Messages ==
    /\ IsS6 =>
         LET ms == InputMessages IN
         /\ Len(ms) = 3
         /\ ms[1] = mkChatMessage("user", JArr(<< textPart("text", "Q") >>), Nil, "")
         /\ ms[2].Role = "assistant"
         /\ ms[2].Content = GoNil
         /\ ms[2].ToolCallId = ""
         /\ ToolCallsOf(ms[2]) = << <<"c1", "f", "{}">> >>
         /\ ms[3] = mkChatMessage("tool", JStr("ok"), Nil, "c1")
    /\ WalkedArray =>
         /\ MessagesAfter(Len(ReqItems)) = InputMessages
         /\ \A k \in 1..Len(ReqItems) :
              /\ IsMessageItem(ReqItems[k]) =>
                     MessageAppended(MessagesAfter(k - 1), MessagesAfter(k), ReqItems[k])
              /\ IsFunctionCallOutput(ReqItems[k]) =>
                     IF AsString(ReqItems[k], "call_id") # ""
                     THEN ToolMessageAppended(MessagesAfter(k - 1), MessagesAfter(k),
                                              ReqItems[k])
                     ELSE MessagesAfter(k) = MessagesAfter(k - 1)

\* scenario S6 was converted, without instructions: three messages, the last
\* the tool message
C20_Witness ==
    /\ IsS6
    /\ ~HasSystemMessage
    /\ Len(Deref(requests[1].chatReq).Messages) = 3
    /\ Deref(requests[1].chatReq).Messages[3].Role = "tool"
    /\ requests[1].err = ""

\* the error the request of the history must get according to the three cases
ExpectedError ==
    LET reqPtr == requests[1].req IN
    IF reqPtr = Nil THEN "request is nil"
    ELSE IF Deref(reqPtr).Model = "" THEN "model is required"
    ELSE IF /\ Deref(reqPtr).Input # Nil
            /\ \/ Deref(Deref(reqPtr).Input).t \notin {"string", "array"}
               \/ /\ Deref(Deref(reqPtr).Input).t = "array"
                  /\ ~UnmarshalMaps(Deref(Deref(reqPtr).Input)).ok
    THEN "input must be a string or array"
    ELSE ""

(***************************************************************************)
(* C21. ResponsesRequestToChatCompletionsRequest returns an error and no   *)
(* request exactly in these cases, checked in this order: the request is   *)
(* nil ("request is nil"), the model is empty ("model is required"), the   *)
(* input is present and is neither a JSON string nor a JSON array or cannot*)
(* be decoded as an array of objects ("input must be a string or array");  *)
(* every other request gets a request and no error.  The code passes the   *)
(* decoder's own error on for an array that holds something else than      *)
(* objects.                                                                *)
(***************************************************************************)
C21_ErrorCases ==
    requests # <<>> =>
        /\ requests[1].err = ExpectedError
        /\ (requests[1].err # "") <=> (requests[1].chatReq = Nil)

\* a complete chat response with a choice was converted
ConvertedChoice ==
    /\ nonStream # <<>>
    /\ nonStream[1].resp # Nil
    /\ Deref(nonStream[1].chatResp).Choices # <<>>

\* the message of that choice, and the output built from it
ChoiceMessage == Deref(nonStream[1].chatResp).Choices[1].Message
ConvertedOutput == Deref(nonStream[1].resp).Output

IsMessageOutput(o) == o.Type = "message"
IsFunctionCallOutputItem(o) == o.Type = "function_call"

(***************************************************************************)
(* C22. ChatCompletionsResponseToResponsesResponse builds output as the    *)
(* function_call items of choices[0].message.tool_calls, in their order,   *)
(* prefixed by one message item whenever the assistant produced text, or   *)
(* produced reasoning, or there are no tool calls; in that message item a  *)
(* reasoning part, when reasoning_content is present, comes before the     *)
(* output_text part.  So a response with tool calls and reasoning but no   *)
(* text still has a message item holding the reasoning part.  The code     *)
(* builds the message item only when there is text or there are no tool    *)
(* calls.                                                                  *)
(***************************************************************************)
C22_OutputLayout ==
    ConvertedChoice =>
        LET msg == ChoiceMessage
            tcs == ParseToolCalls(msg)
            out == ConvertedOutput
            wantMessage == msg.Content # "" \/ msg.ReasoningContent # "" \/ tcs = <<>>
            items == SelectSeq(out, IsFunctionCallOutputItem)
        IN /\ Len(items) = Len(tcs)
           /\ \A k \in 1..Len(tcs) :
                /\ items[k].CallId = tcs[k].ID
                /\ items[k].Name = tcs[k].Function.Name
                /\ items[k].Arguments = tcs[k].Function.Arguments
           /\ wantMessage <=> (out # <<>> /\ IsMessageOutput(out[1]))
           /\ \A k \in 2..Len(out) : IsFunctionCallOutputItem(out[k])
           /\ (out # <<>> /\ IsMessageOutput(out[1])) =>
                [k \in 1..Len(out[1].Content) |-> out[1].Content[k].Type]
                    = (IF msg.ReasoningContent # "" THEN <<"reasoning">> ELSE <<>>)
                      \o (IF msg.Content # "" THEN <<"output_text">> ELSE <<>>)

(***************************************************************************)
(* The specification of content conversion: requests whose input is one    *)
(* message item, its content an array of parts, a string or something else.*)
(***************************************************************************)
MaxParts == 3

imageString  == JObj([ type |-> JStr("input_image"), image_url |-> JStr("http://a") ])
imageObject  == JObj([ type |-> JStr("input_image"),
                       image_url |-> JObj([ url |-> JStr("http://b") ]) ])
imageNoURL   == JObj([ type |-> JStr("input_image"), detail |-> JStr("low") ])
imageEmpty   == JObj([ type |-> JStr("input_image"), image_url |-> JStr("") ])
audioData    == JObj([ type |-> JStr("input_audio"),
                       input_audio |-> JObj([ data |-> JStr("AAAA") ]) ])
audioMissing == JObj([ type |-> JStr("input_audio") ])
fileData     == JObj([ type |-> JStr("input_file"),
                       file |-> JObj([ file_id |-> JStr("file_1") ]) ])
fileMissing  == JObj([ type |-> JStr("input_file"), name |-> JStr("a.txt") ])
customPart   == JObj([ type |-> JStr("custom"), payload |-> JStr("p") ])
untypedPart  == JObj([ text |-> JStr("t") ])

\* the content parts the arrays are built from
ContentParts ==
    << textPart("input_text", "Q"), textPart("output_text", "A"),
       imageString, imageObject, imageNoURL, imageEmpty, audioData, audioMissing,
       fileData, fileMissing, customPart, untypedPart, JStr("raw") >>

\* contents that are not arrays
OtherContents == << JStr("plain"), JStr(""), JNum(1), JNull, JObj([ text |-> JStr("t") ]) >>

\* a request whose input is one user message item with the given content
ContentRequest(content) ==
    mkRequest("m", Nil,
              Ptr(JArr(<< JObj([ type |-> JStr("message"), role |-> JStr("user"),
                                 content |-> content ]) >>)),
              Nil, Nil, Nil, Nil, Nil)

NextContent ==
    /\ requests = <<>>
    /\ \/ \E n \in 0..MaxParts : \E choice \in [1..n -> 1..Len(ContentParts)] :
              ConvertRequest(ContentRequest(
                  JArr([k \in 1..n |-> ContentParts[choice[k]]])))
       \/ \E k \in 1..Len(OtherContents) :
              ConvertRequest(ContentRequest(OtherContents[k]))

SpecContent == Init /\ [][NextContent]_vars

\* a message item with an array as content was converted
ConvertedParts ==
    /\ WalkedArray
    /\ Len(ReqItems) = 1
    /\ IsMessageItem(ReqItems[1])
    /\ "content" \in DOMAIN ReqItems[1]
    /\ ReqItems[1]["content"].t = "array"

\* the parts given, and the chat parts of the message produced
GivenParts == ReqItems[1]["content"].v
ChatParts ==
    LET c == InputMessages[1].Content IN IF c.t = "array" THEN c.v ELSE <<>>

\* the url of an input_image part, in either form, "" when there is none
ImageURLOf(m) ==
    IF "image_url" \notin DOMAIN m THEN ""
    ELSE IF m["image_url"].t = "string" THEN m["image_url"].v
    ELSE IF m["image_url"].t = "object" THEN AsString(m["image_url"].v, "url")
    ELSE ""

\* the chat part c is the conversion of the content part p (an object)
ConvertsTo(p, c) ==
    LET type == AsString(p.v, "type") IN
    /\ c.t = "object"
    /\ CASE type \in {"input_text", "output_text"} ->
              /\ DOMAIN c.v = {"type", "text"}
              /\ AsString(c.v, "type") = "text"
              /\ c.v["text"].t = "string"
              /\ c.v["text"].v = AsString(p.v, "text")
         [] type = "input_image" ->
              /\ DOMAIN c.v = {"type", "image_url"}
              /\ AsString(c.v, "type") = "image_url"
              /\ c.v["image_url"].t = "object"
              /\ DOMAIN c.v["image_url"].v = {"url"}
              /\ AsString(c.v["image_url"].v, "url") = ImageURLOf(p.v)
         [] type = "input_audio" ->
              /\ DOMAIN c.v = {"type", "input_audio"}
              /\ AsString(c.v, "type") = "input_audio"
              /\ "input_audio" \in DOMAIN p.v
              /\ c.v["input_audio"] = p.v["input_audio"]
         [] type = "input_file" ->
              /\ DOMAIN c.v = {"type", "file"}
              /\ AsString(c.v, "type") = "file"
              /\ "file" \in DOMAIN p.v
              /\ c.v["file"] = p.v["file"]
         [] OTHER -> DOMAIN c.v = DOMAIN p.v /\ c = p

\* the parts the conversion has a chat part for
IsConvertible(p) ==
    /\ p.t = "object"
    /\ AsString(p.v, "type") = "input_image" => ImageURLOf(p.v) # ""
    /\ AsString(p.v, "type") = "input_audio" => "input_audio" \in DOMAIN p.v
    /\ AsString(p.v, "type") = "input_file" => "file" \in DOMAIN p.v

(***************************************************************************)
(* C23 as stated.  The content parts of a message item are converted part  *)
(* by part in input order, and the result has one chat part per input      *)
(* part, in the same order.  The code drops a part it has nothing to       *)
(* convert from.                                                           *)
(***************************************************************************)
C23_OnePartPerPart ==
    ConvertedParts =>
        /\ Len(ChatParts) = Len(GivenParts)
        /\ \A k \in 1..Len(GivenParts) :
             GivenParts[k].t = "object" /\ ConvertsTo(GivenParts[k], ChatParts[k])

(***************************************************************************)
(* C23, amended.  The content parts of a message item are converted part   *)
(* by part in input order: input_text and output_text become {type text,   *)
(* text}, input_image with a non-empty url (image_url a string, or an      *)
(* object with url) becomes {type image_url, image_url {url}}, input_audio *)
(* with an input_audio field is passed through, input_file with a file     *)
(* field is passed through with tag file, a part of another type is kept   *)
(* verbatim; an input_image without url, an input_audio without            *)
(* input_audio, an input_file without file and a part that is not an       *)
(* object are dropped.  The result has one chat part per remaining part,   *)
(* in the same order, and is the empty string when no part remains.        *)
(***************************************************************************)
C23_PartByPart ==
    ConvertedParts =>
        LET kept == SelectSeq(GivenParts, IsConvertible) IN
        /\ Len(ChatParts) = Len(kept)
        /\ \A k \in 1..Len(kept) : ConvertsTo(kept[k], ChatParts[k])
        /\ kept = <<>> => /\ InputMessages[1].Content.t = "string"
                          /\ InputMessages[1].Content.v = ""

\* an image given as an object, an image without url, a file: two chat parts
C23_Witness ==
    /\ ConvertedParts
    /\ Len(GivenParts) = 3
    /\ AsString(GivenParts[1].v, "type") = "input_image"
    /\ ImageURLOf(GivenParts[1].v) = "http://b"
    /\ GivenParts[2].t = "object" /\ DOMAIN GivenParts[2].v = {"type", "detail"}
    /\ AsString(GivenParts[3].v, "type") = "input_file"
    /\ Len(ChatParts) = 2
    /\ AsString(ChatParts[1].v, "type") = "image_url"
    /\ AsString(ChatParts[2].v, "type") = "file"

\* the concatenation of the Text fields of the parts
RECURSIVE ConcatText(_)
ConcatText(parts) ==
    IF parts = <<>> THEN "" ELSE Head(parts).Text \o ConcatText(Tail(parts))

IsOutputTextPart(c) == c.Type = "output_text"

\* ExtractOutputTextFromResponses: the output_text parts of the first message
\* item of output, concatenated
ExtractOutputTextFromResponses(resp) ==
    LET ms == SelectSeq(resp.Output, IsMessageOutput)
    IN IF ms = <<>> THEN ""
       ELSE ConcatText(SelectSeq(ms[1].Content, IsOutputTextPart))

\* the converted chat response had only text: no tool calls, no reasoning
TextOnlyResponse ==
    /\ ConvertedChoice
    /\ ParseToolCalls(ChoiceMessage) = <<>>
    /\ ChoiceMessage.ReasoningContent = ""

(***************************************************************************)
(* C24, the half of the round trip made by                                 *)
(* ChatCompletionsResponseToResponsesResponse.  For a chat response with   *)
(* only text, the Responses response keeps what the way back needs: the    *)
(* text extracted from output is the assistant content, output has no      *)
(* function_call item, the prompt, completion and total token counts are   *)
(* those of the chat response, and the status tells length and             *)
(* content_filter apart from the other finish reasons.                     *)
(***************************************************************************)
C24_TextOnlyPreserved ==
    TextOnlyResponse =>
        LET in == Deref(nonStream[1].chatResp)
            out == Deref(nonStream[1].resp)
        IN /\ ExtractOutputTextFromResponses(out) = ChoiceMessage.Content
           /\ SelectSeq(out.Output, IsFunctionCallOutputItem) = <<>>
           /\ Deref(out.Usage).PromptTokens = in.Usage.PromptTokens
           /\ Deref(out.Usage).CompletionTokens = in.Usage.CompletionTokens
           /\ Deref(out.Usage).TotalTokens = in.Usage.TotalTokens
           /\ (out.Status = "incomplete") <=> (in.Choices[1].FinishReason = "length")
           /\ (out.Status = "failed") <=> (in.Choices[1].FinishReason = "content_filter")

(***************************************************************************)
(* The specification of the model field: streams whose chunks bear no      *)
(* model, one model or another.                                            *)
(***************************************************************************)
ModelChunks ==
    { Nil }
    \cup { mkChunk(model, << mkChoice(role, content, Nil, <<>>, finish) >>, Nil) :
             model \in {"", "m1", "m2"},
             role \in {"assistant"}, content \in {Nil, Ptr("Hi")},
             finish \in {Nil, Ptr("stop")} }

NextModel ==
    \E chunkPtr \in ModelChunks :
        \E order1, order2 \in Perms(keysAfter(adapter, chunkPtr)) :
            ConvertChunk(chunkPtr, order1, order2)

SpecModel == Init /\ [][NextModel]_vars

\* the model field of call i's chunk, "" for a nil chunk
ModelOfCall(i) == IF calls[i].chunk = Nil THEN "" ELSE Deref(calls[i].chunk).Model

\* the model of the first chunk, among the first n, that bears one; "" if none does
FirstModel(n) ==
    LET bearing == {i \in 1..n : ModelOfCall(i) # ""}
    IN IF bearing = {} THEN ""
       ELSE ModelOfCall(CHOOSE i \in bearing : \A j \in bearing : i <= j)

IsCreated(e) == e.type = "response.created"

(***************************************************************************)
(* C25. The model is latched from the first chunk that bears one: the      *)
(* model reported in response.completed is the model of the first chunk    *)
(* with a non-empty model field, also when later chunks carry a different  *)
(* model; and response.created reports that model when the first chunk     *)
(* bears it.  The code stores the model of every chunk that bears one.     *)
(***************************************************************************)
C25_ModelLatchedFromFirst ==
    \A i \in 1..Len(calls) :
        /\ \A p \in Positions(calls[i].events, IsCompleted) :
             calls[i].events[p].response.model = FirstModel(i)
        /\ \A p \in Positions(calls[i].events, IsCreated) :
             ModelOfCall(i) # "" => calls[i].events[p].response.model = ModelOfCall(i)

(***************************************************************************)
(* C26. The message item is opened at most once per stream: over any chunk *)
(* sequence at most one response.output_item.added of type message and at  *)
(* most one response.content_part.added are emitted, also when role        *)
(* "assistant" is repeated on several chunks before the first non-empty    *)
(* text.  The code opens the item on every such chunk.                     *)
(***************************************************************************)
C26_MessageOpenedOnce ==
    /\ Cardinality(Positions(Events, IsMessageAdded)) <= 1
    /\ Cardinality(Positions(Events, IsPartAdded)) <= 1

\* every function_call_output item of the input comes after a function_call
\* item with the same call_id
OutputsFollowCalls ==
    \A k \in 1..Len(ReqItems) :
        IsFunctionCallOutput(ReqItems[k]) =>
            \E j \in 1..(k - 1) :
                /\ IsFunctionCall(ReqItems[j])
                /\ AsString(ReqItems[j], "call_id") = AsString(ReqItems[k], "call_id")

\* the ids of the tool calls of message m
ToolCallIdsOf(m) == {ToolCallsOf(m)[c][1] : c \in 1..Len(ToolCallsOf(m))}

(***************************************************************************)
(* C27. Tool messages are never orphaned: for every input array in which   *)
(* each function_call_output item is preceded by a function_call item with *)
(* the same call_id, every message of role tool in the result is preceded  *)
(* by an assistant message whose tool_calls hold an entry with that id.    *)
(* The code drops a function_call without name and keeps its output.       *)
(***************************************************************************)
C27_NoOrphanToolMessage ==
    (WalkedArray /\ OutputsFollowCalls) =>
        \A k \in 1..Len(InputMessages) :
            InputMessages[k].Role = "tool" =>
                \E j \in 1..(k - 1) :
                    /\ InputMessages[j].Role = "assistant"
                    /\ InputMessages[k].ToolCallId \in ToolCallIdsOf(InputMessages[j])

====
